---- MODULE Spec2Model ----
(***************************************************************************)
(* Peer connection and messaging layer of ZappierV2.                       *)
(*                                                                         *)
(*   RelaySpec : the coordination relay, src/server/routes.ts              *)
(*   Spec      : the client transport manager (WebRTCManager) and the      *)
(*               PeerConnectionProvider that drives it                     *)
(*   SignalSpec: the client's signaling socket, its reconnection and the   *)
(*               initialization of the transport-library instance          *)
(*   DispatchSpec: the dispatch of inbound channel data to the handlers    *)
(*   FileSendSpec: the chat window sending a file in chunks                *)
(*   FileReceiveSpec: the chat window reassembling a received file         *)
(*   FileTransferSpec: a sender's envelopes delivered in order to a        *)
(*               receiving chat window                                     *)
(*   HandshakeSpec: the provider's handler of contact-info envelopes       *)
(*   CallSpec  : the manager's calls with the values they return           *)
(*   ChatSendSpec: the chat window sending and receiving text messages     *)
(*   ErrorSpec : errors of the transport-library instance and of channels  *)
(*   PresenceSpec: presence reports and status transitions as stored       *)
(*   RegistrationSpec: the registration of the local peer id with the relay*)
(*                                                                         *)
(* The specifications share one set of variables; each leaves the          *)
(* variables of the components it does not move unchanged.                 *)
(***************************************************************************)
EXTENDS Integers, Sequences, FiniteSets, TLC

(***************************************************************************)
(* Bounds of the model.                                                    *)
(***************************************************************************)
NSockets == 2
NPeerIds == 2
NRemote == 2
NContacts == 1
MaxChan == 3
MaxTicks == 3
NHandlers == 2
NGlobalHandlers == 1
MaxMsgs == 2
NFiles == 2
MaxFileChunks == 2
NChunkData == 2
MaxFinishing == 2
MaxReceived == 2
NRxFiles == 1
MaxHandshakes == 2
MaxSends == 2
NIncoming == 1

Sockets == 1..NSockets
PeerIds == 1..NPeerIds
\* the remote endpoints, and those of them stored as contacts: contact c is
\* the contact whose peerId is c
RemotePeers == 1..NRemote
Contacts == 1..(IF NContacts < NRemote THEN NContacts ELSE NRemote)
Channels == 1..MaxChan

\* currentPeerId before any register frame (routes.ts:20, null)
NoPeer == 0
\* peers.get(id) === undefined
NoSocket == 0

VARIABLES
    \* ---- relay (src/server/routes.ts)
    sockState,      \* readyState of each signaling socket accepted by the relay
    currentPeerId,  \* the closure variable of each socket's connection handler
    peers,          \* the registry: peer id -> {ws, displayName}
    lastEvent,      \* the event the relay handled last (socket and frame)
    sent,           \* what the relay sent, to each socket, while handling it
    \* ---- client (src/client/src/lib/notifications.ts, WebRTCManager)
    now,            \* Date.now(), in ms
    peer,           \* this.peer: "null", or the state of the Peer instance
    isReinitializing,
    lastReinitTime,
    chan,           \* the DataConnection objects created so far
    nextChan,       \* how many there are
    connections,    \* this.connections: remote peer id -> channel (0: none)
    statusHandlers, \* this.statusHandlers: the contact ids with a handler
    \* ---- client (src/client/src/lib/peer-connection-context.tsx)
    status,         \* connectionStatuses: contact id -> status ("none": unset)
    contactStatus,  \* the presence stored with each contact
    \* ---- client signaling socket (WebRTCManager.ws and its reconnection)
    ws,             \* this.ws: "none" (null), or the state of the WebSocket
    reconnectAttempts,
    reconnectTimers,    \* the delays of the pending setTimeout callbacks
    scheduledSinceOpen, \* (history) reconnects scheduled since the last open
    createTimes,        \* (history) Date.now() at each new Peer(), in order
    \* ---- client message dispatch (WebRTCManager.handlePeerData)
    messageHandlers,    \* this.messageHandlers: remote peer id -> handler (0: none)
    globalRequested,    \* (history) the handlers passed to onGlobalMessage
    inbox,              \* (history) the 'data' events so far, in order
    calls,              \* (history) the handler invocations so far, in order
    uncaught,           \* (history) an exception left a 'data' callback
    lastRegistered,     \* (history) the handler last passed to onMessage, per peer
    \* ---- chat window, sending a file (ChatWindow.handleFileChange)
    nextFile,           \* how many message ids nanoid() has produced
    records,            \* the outgoing message records: id -> status and size
    outbox,             \* (history) the sendMessage calls and their results
    \* ---- chat window, receiving a file (ChatWindow.setupPeerConnection)
    fileChunks,         \* fileChunksRef: file id -> session
    finishing,          \* the completed files waiting on saveMessage, in order
    received,           \* the file messages added to the chat, in order
    lastRx,             \* (history) the file envelope handled last
    wirePos,            \* how many sendMessage calls the channel has carried over
    \* ---- provider, contact-info handler (peer-connection-context.tsx)
    handshakes,         \* the invocations of the handler: arguments and stage
    contactStore,       \* the contacts store: the saved contacts
    notified,           \* (history) the notifyNewContact calls, in order
    observed,           \* (history) the runs of the contacts-changed callbacks
    \* ---- client, calls of the manager and what they return
    lastCall,           \* (history) the last sendMessage, connectToPeer or
                        \* ensureConnection call and what it returned
    promise,            \* the promise connectToPeer returned for each channel
    ensuring,           \* per contact, where its ensureConnection call is
    \* ---- chat messages (ChatWindow.handleSendMessage, chat branch)
    chatStore,          \* the 'messages' object store: id -> sender, status
    nextMessage,        \* how many message ids handleSendMessage has drawn
    isSending,          \* the isSending state of the chat window
    sendStage,          \* where the handleSendMessage call in flight is
    \* ---- client, errors of the Peer instance (WebRTCManager.initializePeer)
    reinitTimers,       \* the delays of the pending re-initialization timers
    lastError,          \* (history) the 'error' event of the instance last handled
    \* ---- provider, contacts-changed observers (onContactsChanged)
    callbacks,          \* contactsChangedCallbacksRef: the observers, in order
    contactEvents,      \* (history) what the contact-info handler did, in order
    \* ---- registration of the local peer id with the relay
    registerSent,       \* a register frame was sent on the current socket
    relayHolds,         \* the relay's registry holds the id on that socket
    \* ---- provider, presence events (onPeerStatusChange)
    lastPresence        \* (history) the presence event handled last

relayVars == <<sockState, currentPeerId, peers, lastEvent, sent>>

clientVars == <<now, peer, isReinitializing, lastReinitTime, chan, nextChan,
                connections, statusHandlers, status, contactStatus>>

dispatchVars == <<messageHandlers, globalRequested, inbox, calls, uncaught,
                 lastRegistered>>

fileSendVars == <<nextFile, records, outbox>>

fileReceiveVars == <<fileChunks, finishing, received, lastRx, wirePos>>

fileVars == <<nextFile, records, outbox, fileChunks, finishing, received,
              lastRx, wirePos>>

callVars == <<lastCall, promise, ensuring>>

chatVars == <<chatStore, nextMessage, isSending, sendStage>>

handshakeVars == <<handshakes, contactStore, notified, observed>>

signalVars == <<ws, reconnectAttempts, reconnectTimers, scheduledSinceOpen>>

errorVars == <<reinitTimers, lastError>>

observerVars == <<callbacks, contactEvents>>

registerVars == <<registerSent, relayHolds>>

supportVars == <<reinitTimers, lastError, callbacks, contactEvents,
                 registerSent, relayHolds, lastPresence>>

vars == <<sockState, currentPeerId, peers, lastEvent, sent,
          now, peer, isReinitializing, lastReinitTime, chan, nextChan,
          connections, statusHandlers, status, contactStatus,
          ws, reconnectAttempts, reconnectTimers, scheduledSinceOpen,
          createTimes,
          messageHandlers, globalRequested, inbox, calls, uncaught,
          lastRegistered,
          nextFile, records, outbox, fileChunks, finishing, received,
          lastRx, wirePos,
          handshakes, contactStore, notified, observed,
          lastCall, promise, ensuring,
          chatStore, nextMessage, isSending, sendStage,
          reinitTimers, lastError, callbacks, contactEvents,
          registerSent, relayHolds, lastPresence>>

(***************************************************************************)
(* The relay: frames and messages.                                         *)
(***************************************************************************)
ForwardKinds == {"signal", "offer", "answer", "ice-candidate"}
PresenceStatuses == {"online", "offline"}

\* A frame a client sends, after JSON.parse; type "malformed" is a frame
\* whose parse throws, type "unknown" one no case of the switch matches.
Frame(type, peerId, name, to, from, payload, callType, stat) ==
    [type |-> type, peerId |-> peerId, displayName |-> name, to |-> to,
     from |-> from, payload |-> payload, callType |-> callType,
     status |-> stat]

\* The fields the relay copies without reading them: two bodies that differ
\* in every field stand for all of them.
Bodies ==
    {[from |-> 1, payload |-> 1, callType |-> "audio"],
     [from |-> 2, payload |-> 2, callType |-> "video"]}

DisplayNames == {1}

RegisterFrames ==
    {Frame("register", id, n, 0, 0, 0, "", "") :
        id \in PeerIds, n \in DisplayNames}

\* only an offer carries callType
ForwardFrames ==
    {Frame(k, 0, 0, to, b.from, b.payload,
           IF k = "offer" THEN b.callType ELSE "", "") :
        k \in ForwardKinds, to \in PeerIds, b \in Bodies}

StatusFrames ==
    {Frame("status-update", 0, 0, 0, 0, 0, "", st) : st \in PresenceStatuses}

OtherFrames ==
    {Frame(t, 0, 0, 0, 0, 0, "", "") : t \in {"ping", "malformed", "unknown"}}

Frames == RegisterFrames \cup ForwardFrames \cup StatusFrames \cup OtherFrames

NoFrame == Frame("", 0, 0, 0, 0, 0, "", "")

\* A message the relay sends (the argument of JSON.stringify); the
\* timestamp of a peer-status message is left out.
Msg(type, peerId, from, payload, callType, stat, message) ==
    [type |-> type, peerId |-> peerId, from |-> from, payload |-> payload,
     callType |-> callType, status |-> stat, message |-> message]

RegisteredMsg(id) == Msg("registered", id, 0, 0, "", "", "")
ErrorMsg(text) == Msg("error", 0, 0, 0, "", "", text)
PongMsg == Msg("pong", 0, 0, 0, "", "", "")
PeerStatusMsg(id, st) == Msg("peer-status", id, 0, 0, "", st, "")
\* a faulty copy, for comparison: it names the target as its origin
ForwardMsgFromTarget(f) ==
    Msg(f.type, 0, f.to, f.payload, f.callType, "", "")

\* the forwarded copy keeps type, from and the payload field (and callType
\* of an offer); the "to" field is dropped
ForwardMsg(f) == Msg(f.type, 0, f.from, f.payload, f.callType, "", "")

NoEntry == [ws |-> NoSocket, displayName |-> 0]
Entry(s, n) == [ws |-> s, displayName |-> n]

Nothing == [s \in Sockets |-> <<>>]
Only(s, m) == [Nothing EXCEPT ![s] = <<m>>]

\* ws.readyState === WebSocket.OPEN
IsOpen(s) == sockState[s] = "open"

\* targetPeer && targetPeer.ws.readyState === WebSocket.OPEN
Available(reg, id) == reg[id].ws # NoSocket /\ IsOpen(reg[id].ws)

\* peers.forEach(...) sending m to the socket of every entry whose id is in
\* kept: a socket bound under k such ids is sent k copies
RECURSIVE Copies(_, _)
Copies(n, m) == IF n = 0 THEN <<>> ELSE <<m>> \o Copies(n - 1, m)

Broadcast(reg, kept, m) ==
    [s \in Sockets |->
        Copies(Cardinality({id \in kept : reg[id].ws = s /\ IsOpen(s)}), m)]

RelayInit ==
    /\ sockState = [s \in Sockets |-> "idle"]
    /\ currentPeerId = [s \in Sockets |-> NoPeer]
    /\ peers = [id \in PeerIds |-> NoEntry]
    /\ lastEvent = [sock |-> 0, kind |-> "init", frame |-> NoFrame]
    /\ sent = Nothing

Event(s, kind, f) == [sock |-> s, kind |-> kind, frame |-> f]

\* wss.on('connection'): a new socket, not yet registered
Connection(s) ==
    /\ sockState[s] = "idle"
    /\ sockState' = [sockState EXCEPT ![s] = "open"]
    /\ currentPeerId' = [currentPeerId EXCEPT ![s] = NoPeer]
    /\ lastEvent' = Event(s, "connection", NoFrame)
    /\ sent' = Nothing
    /\ UNCHANGED peers
    /\ UNCHANGED clientVars
    /\ UNCHANGED dispatchVars
    /\ UNCHANGED handshakeVars
    /\ UNCHANGED <<callVars, chatVars, supportVars>>
    /\ UNCHANGED fileVars
    /\ UNCHANGED <<signalVars, createTimes>>

\* ws.on('message'): one frame f arrives from socket s while it is open
OnMessage(s, f) ==
    /\ IsOpen(s)
    /\ lastEvent' = Event(s, "message", f)
    /\ UNCHANGED sockState
    /\ UNCHANGED clientVars
    /\ UNCHANGED dispatchVars
    /\ UNCHANGED handshakeVars
    /\ UNCHANGED <<callVars, chatVars, supportVars>>
    /\ UNCHANGED fileVars
    /\ UNCHANGED <<signalVars, createTimes>>

\* a faulty registration, for comparison: it keeps an existing binding
RegisterFirstWins(s, f) ==
    /\ f.type = "register"
    /\ OnMessage(s, f)
    /\ currentPeerId' = [currentPeerId EXCEPT ![s] = f.peerId]
    /\ peers' = IF peers[f.peerId].ws = NoSocket
                THEN [peers EXCEPT ![f.peerId] = Entry(s, f.displayName)]
                ELSE peers
    /\ sent' = Only(s, RegisteredMsg(f.peerId))

\* case 'register'
Register(s, f) ==
    /\ f.type = "register"
    /\ OnMessage(s, f)
    /\ currentPeerId' = [currentPeerId EXCEPT ![s] = f.peerId]
    /\ peers' = [peers EXCEPT ![f.peerId] = Entry(s, f.displayName)]
    /\ sent' = Only(s, RegisteredMsg(f.peerId))

\* what a forwarding case sends when its target is not available
UnavailableReply(s, f) ==
    IF f.type = "signal"
    THEN Only(s, ErrorMsg("Target peer not available"))
    ELSE Nothing

\* cases 'signal', 'offer', 'answer', 'ice-candidate'
Forward(s, f) ==
    /\ f.type \in ForwardKinds
    /\ OnMessage(s, f)
    /\ sent' = IF Available(peers, f.to)
               THEN Only(peers[f.to].ws, ForwardMsg(f))
               ELSE UnavailableReply(s, f)
    /\ UNCHANGED <<currentPeerId, peers>>

\* the entries a status-update of socket s is sent to
StatusKeep(s, id) == id # currentPeerId[s]

\* case 'status-update'
StatusUpdate(s, f) ==
    /\ f.type = "status-update"
    /\ OnMessage(s, f)
    /\ sent' = Broadcast(peers, {id \in PeerIds : StatusKeep(s, id)},
                         PeerStatusMsg(currentPeerId[s], f.status))
    /\ UNCHANGED <<currentPeerId, peers>>

\* case 'ping'
Ping(s, f) ==
    /\ f.type = "ping"
    /\ OnMessage(s, f)
    /\ sent' = Only(s, PongMsg)
    /\ UNCHANGED <<currentPeerId, peers>>

\* a faulty catch block, for comparison: it only logs
MalformedSilent(s, f) ==
    /\ f.type = "malformed"
    /\ OnMessage(s, f)
    /\ sent' = Nothing
    /\ UNCHANGED <<currentPeerId, peers>>

\* JSON.parse throws: the catch block
Malformed(s, f) ==
    /\ f.type = "malformed"
    /\ OnMessage(s, f)
    /\ sent' = Only(s, ErrorMsg("Invalid message format"))
    /\ UNCHANGED <<currentPeerId, peers>>

\* no case of the switch matches
Unknown(s, f) ==
    /\ f.type = "unknown"
    /\ OnMessage(s, f)
    /\ sent' = Nothing
    /\ UNCHANGED <<currentPeerId, peers>>

\* the socket leaves OPEN (close frame received or connection lost); the
\* 'close' event has not been dispatched yet
BeginClose(s) ==
    /\ IsOpen(s)
    /\ sockState' = [sockState EXCEPT ![s] = "closing"]
    /\ lastEvent' = Event(s, "closing", NoFrame)
    /\ sent' = Nothing
    /\ UNCHANGED <<currentPeerId, peers>>
    /\ UNCHANGED clientVars
    /\ UNCHANGED dispatchVars
    /\ UNCHANGED handshakeVars
    /\ UNCHANGED <<callVars, chatVars, supportVars>>
    /\ UNCHANGED fileVars
    /\ UNCHANGED <<signalVars, createTimes>>

\* a faulty close handler, for comparison: it deletes no registration
AfterCloseKeepsEntry(reg, s) == reg

\* the registry after the close handler of socket s
AfterClose(reg, s) ==
    IF currentPeerId[s] # NoPeer
    THEN [reg EXCEPT ![currentPeerId[s]] = NoEntry]
    ELSE reg

\* ws.on('close')
OnClose(s) ==
    /\ sockState[s] = "closing"
    /\ sockState' = [sockState EXCEPT ![s] = "closed"]
    /\ lastEvent' = Event(s, "close", NoFrame)
    /\ peers' = AfterClose(peers, s)
    /\ sent' = IF currentPeerId[s] # NoPeer
               THEN [t \in Sockets |->
                       Copies(Cardinality({id \in PeerIds :
                                  /\ peers'[id].ws = t
                                  /\ sockState'[t] = "open"}),
                              PeerStatusMsg(currentPeerId[s], "offline"))]
               ELSE Nothing
    /\ UNCHANGED currentPeerId
    /\ UNCHANGED clientVars
    /\ UNCHANGED dispatchVars
    /\ UNCHANGED handshakeVars
    /\ UNCHANGED <<callVars, chatVars, supportVars>>
    /\ UNCHANGED fileVars
    /\ UNCHANGED <<signalVars, createTimes>>

RelayNext ==
    \/ \E s \in Sockets : Connection(s)
    \/ \E s \in Sockets, f \in RegisterFrames : Register(s, f)
    \/ \E s \in Sockets, f \in ForwardFrames : Forward(s, f)
    \/ \E s \in Sockets, f \in StatusFrames : StatusUpdate(s, f)
    \/ \E s \in Sockets, f \in OtherFrames : Ping(s, f)
    \/ \E s \in Sockets, f \in OtherFrames : Malformed(s, f)
    \/ \E s \in Sockets, f \in OtherFrames : Unknown(s, f)
    \/ \E s \in Sockets : BeginClose(s)
    \/ \E s \in Sockets : OnClose(s)

(***************************************************************************)
(* The client: WebRTCManager and PeerConnectionProvider.                   *)
(***************************************************************************)
\* the cooldown of initializePeer, in ms
CooldownMs == 3000
\* the clock advances in steps of a third of the cooldown
TickMs == CooldownMs \div 3
MaxClock == CooldownMs + MaxTicks * TickMs

Statuses == {"connecting", "connected", "failed", "disconnected"}

NoChan == [peer |-> 0, st |-> "none", out |-> FALSE, contact |-> 0]
NewChan(r, out, c) == [peer |-> r, st |-> "pending", out |-> out, contact |-> c]

\* contact.peerId
PeerIdOf(c) == c

\* the record of a call (or of an error event of a channel): the operation,
\* the remote peer id it was given,
\* whether connectToPeer found a record of that id (ensureConnection: found
\* it open at once), the
\* channel it handed a message to or requested (0: none), and the value or
\* the state of the promise it returned
NoCall ==
    [turn |-> 0, op |-> "none", peer |-> 0, had |-> FALSE, chan |-> 0,
     result |-> "none"]
\* message ids: nanoid() of handleSendMessage draws 1..MaxSends, the remote
\* peer's ids are other ids
OutgoingIds == 1..MaxSends
IncomingIds == (MaxSends + 1)..(MaxSends + NIncoming)
MessageIds == OutgoingIds \cup IncomingIds
NoMessage == [sender |-> "none", status |-> "none"]
NotSending == [stage |-> "idle", id |-> 0, contact |-> 0]

Call(op, r, had, ch, result) ==
    [turn |-> 1 - lastCall.turn, op |-> op, peer |-> r, had |-> had,
     chan |-> ch, result |-> result]

\* a DataConnection that has not closed; conn.open
Live(ch) == chan[ch].st \in {"pending", "open"}
Open(ch) == chan[ch].st = "open"

\* ---- file transfer: ids, envelopes and the state before any transfer
FileIds == 1..NFiles
\* const chunkSize = 16384
ChunkSize == 16384
\* the sizes of the files the user picks: around each multiple of the
\* chunk size
FileSizes ==
    {n \in {k * ChunkSize + e : k \in 0..MaxFileChunks, e \in {-1, 0, 1}} :
        n >= 0 /\ n <= MaxFileChunks * ChunkSize}

\* bytes [from, to) of a file; a slot holding null
Bytes(from, to) == [from |-> from, to |-> to]
Null == Bytes(-1, -1)
\* a message id made by nanoid(), the id `${messageId}-chunk-${i}` derived
\* from it, and a data.fileId that is absent
MessageId(id) == <<id>>
ChunkMessageId(id, i) == <<id, i>>
NoFileId == <<>>
FileKeys == {MessageId(id) : id \in FileIds}

\* an envelope of type 'file'; chunks, chunkIndex are -1 and chunkData is
\* Null where the envelope has no such field
FileEnvelope(messageId, fileId, size, chunks, chunkIndex, chunkData) ==
    [type |-> "file", messageId |-> messageId, fileId |-> fileId,
     size |-> size, chunks |-> chunks, chunkIndex |-> chunkIndex,
     chunkData |-> chunkData]

\* fileChunksRef.current.has(fileId) is false
NoSession == [has |-> FALSE, meta |-> -1, chunks |-> <<>>, receivedCount |-> 0]

FileInit ==
    /\ nextFile = 0
    /\ records = [id \in FileIds |-> [status |-> "none", size |-> 0]]
    /\ outbox = <<>>
    /\ fileChunks = [f \in FileKeys |-> NoSession]
    /\ finishing = <<>>
    /\ received = <<>>
    /\ wirePos = 0
    /\ lastRx = [turn |-> 0,
                 env |-> FileEnvelope(NoFileId, NoFileId, -1, -1, -1, Null)]

\* no 'error' event of the instance and no presence event handled yet
NoError == [turn |-> FALSE, type |-> "none"]
NoPresence == [turn |-> FALSE, peer |-> NoPeer, st |-> "none"]

ClientInit ==
    /\ now = CooldownMs
    /\ peer = "null"
    /\ isReinitializing = FALSE
    /\ lastReinitTime = 0
    /\ chan = [ch \in Channels |-> NoChan]
    /\ nextChan = 0
    /\ connections = [r \in RemotePeers |-> 0]
    /\ statusHandlers = {}
    /\ status = [c \in Contacts |-> "none"]
    /\ contactStatus = [c \in Contacts |-> "offline"]
    /\ createTimes = <<>>
    /\ messageHandlers = [r \in RemotePeers |-> 0]
    /\ globalRequested = {}
    /\ inbox = <<>>
    /\ calls = <<>>
    /\ uncaught = FALSE
    /\ lastRegistered = [r \in RemotePeers |-> 0]
    /\ FileInit
    /\ handshakes = <<>>
    /\ contactStore = {}
    /\ notified = <<>>
    /\ observed = <<>>
    /\ lastCall = NoCall
    /\ promise = [ch \in Channels |-> "none"]
    /\ ensuring = [c \in Contacts |-> [stage |-> "idle", chan |-> 0]]
    /\ chatStore = [id \in MessageIds |-> NoMessage]
    /\ nextMessage = 0
    /\ isSending = FALSE
    /\ sendStage = NotSending
    /\ reinitTimers = <<>>
    /\ lastError = NoError
    /\ callbacks = <<>>
    /\ contactEvents = <<>>
    /\ registerSent = FALSE
    /\ relayHolds = FALSE
    /\ lastPresence = NoPresence

\* maxReconnectAttempts and reconnectDelay (ms)
MaxReconnectAttempts == 5
ReconnectDelay == 1000

\* an attemptReconnect that schedules without looking at the counter, for
\* comparison
\* an attemptReconnect whose delay does not grow
AttemptReconnectFixedDelay(attempts) ==
    IF attempts < MaxReconnectAttempts
    THEN [attempts |-> attempts + 1, timers |-> {ReconnectDelay}]
    ELSE [attempts |-> attempts, timers |-> {}]

AttemptReconnectAlways(attempts) ==
    [attempts |-> attempts + 1,
     timers |-> {ReconnectDelay * (attempts + 1)}]

\* attemptReconnect(): the counter after it, and the delay of the timer it
\* sets (none when the counter has reached the maximum)
AttemptReconnect(attempts) ==
    IF attempts < MaxReconnectAttempts
    THEN [attempts |-> attempts + 1,
          timers |-> {ReconnectDelay * (attempts + 1)}]
    ELSE [attempts |-> attempts, timers |-> {}]

\* initializeWebSocket(): this.ws, the counter and the timers after it
InitializeWebSocket(throws, w, attempts, timers) ==
    IF throws
    THEN [ws |-> w,
          attempts |-> AttemptReconnect(attempts).attempts,
          timers |-> timers \cup AttemptReconnect(attempts).timers]
    ELSE [ws |-> "connecting", attempts |-> attempts, timers |-> timers]

\* the WebRTCManager constructor calls initializeWebSocket: the socket is
\* connecting, or, if new WebSocket threw, the first reconnect is scheduled
SocketInit(throws) ==
    LET r == InitializeWebSocket(throws, "none", 0, {})
    IN /\ ws = r.ws
       /\ reconnectAttempts = r.attempts
       /\ reconnectTimers = r.timers
       /\ scheduledSinceOpen = Cardinality(r.timers)

Init == RelayInit /\ ClientInit /\ SocketInit(FALSE)

SignalInit == RelayInit /\ ClientInit /\ \E throws \in BOOLEAN : SocketInit(throws)

RelaySpec == Init /\ [][RelayNext]_vars

\* time passes
Tick ==
    /\ now + TickMs <= MaxClock
    /\ now' = now + TickMs
    /\ UNCHANGED <<peer, isReinitializing, lastReinitTime, chan, nextChan,
                   connections, statusHandlers, status, contactStatus>>
    /\ UNCHANGED relayVars
    /\ UNCHANGED dispatchVars
    /\ UNCHANGED handshakeVars
    /\ UNCHANGED <<callVars, chatVars, supportVars>>
    /\ UNCHANGED fileVars
    /\ UNCHANGED <<signalVars, createTimes>>

\* the status callback the provider registers with onStatusChange: it
\* stores the status in connectionStatuses and the presence with the contact
HandlerStatus(st, c, v) == [st EXCEPT ![c] = v]
HandlerPresence(cs, c, v) ==
    [cs EXCEPT ![c] = IF v = "connected" THEN "online" ELSE "offline"]

\* const h = this.statusHandlers.get(contact.id); if (h) h(v)
NotifyStatus(hs, st, c, v) == IF c \in hs THEN HandlerStatus(st, c, v) ELSE st
NotifyPresence(hs, cs, c, v) ==
    IF c \in hs THEN HandlerPresence(cs, c, v) ELSE cs

\* every DataConnection of the Peer instance closed (peer.destroy())
AllClosed ==
    [ch \in Channels |->
        IF Live(ch) THEN [chan[ch] EXCEPT !.st = "closed"] ELSE chan[ch]]

\* an initializePeer without the cooldown, for comparison
RegisterPeerNoCooldown(throws) ==
    /\ ~isReinitializing
    /\ lastReinitTime' = now
    /\ LET wasLive == peer \in {"pending", "open"}
       IN /\ chan' = IF wasLive THEN AllClosed ELSE chan
          /\ connections' = IF wasLive THEN [r \in RemotePeers |-> 0]
                            ELSE connections
          /\ peer' = IF throws
                     THEN (IF wasLive THEN "destroyed" ELSE peer)
                     ELSE "pending"
          /\ isReinitializing' = IF throws \/ wasLive THEN FALSE ELSE TRUE
    /\ createTimes' = IF throws THEN createTimes ELSE Append(createTimes, now)
    /\ UNCHANGED <<now, nextChan, statusHandlers, status, contactStatus>>
    /\ UNCHANGED relayVars
    /\ UNCHANGED dispatchVars
    /\ UNCHANGED handshakeVars
    /\ UNCHANGED <<callVars, chatVars, supportVars>>
    /\ UNCHANGED fileVars
    /\ UNCHANGED signalVars

\* registerPeer -> initializePeer: skipped within the cooldown or while a
\* re-initialization is in flight; otherwise the old instance is destroyed
\* (its channels close, its 'close' handler clears the map and the flag) and
\* a new one is created, unless the constructor throws.
InitializePeer(throws) ==
    /\ ~(isReinitializing \/ now - lastReinitTime < CooldownMs)
    /\ lastReinitTime' = now
    /\ LET wasLive == peer \in {"pending", "open"}
       IN /\ chan' = IF wasLive THEN AllClosed ELSE chan
          /\ connections' = IF wasLive THEN [r \in RemotePeers |-> 0]
                            ELSE connections
          /\ peer' = IF throws
                     THEN (IF wasLive THEN "destroyed" ELSE peer)
                     ELSE "pending"
          /\ isReinitializing' = IF throws \/ wasLive THEN FALSE ELSE TRUE
    /\ createTimes' = IF throws THEN createTimes ELSE Append(createTimes, now)
    /\ UNCHANGED <<now, nextChan, statusHandlers, status, contactStatus>>
    /\ UNCHANGED relayVars
    /\ UNCHANGED dispatchVars
    /\ UNCHANGED handshakeVars
    /\ UNCHANGED fileVars
    /\ UNCHANGED signalVars

RegisterPeer(throws) ==
    InitializePeer(throws) /\ UNCHANGED <<callVars, chatVars, supportVars>>

\* peer.on('open')
PeerOpenStep ==
    /\ peer = "pending"
    /\ peer' = "open"
    /\ isReinitializing' = FALSE
    /\ UNCHANGED <<now, lastReinitTime, chan, nextChan, connections,
                   statusHandlers, status, contactStatus>>
    /\ UNCHANGED relayVars
    /\ UNCHANGED dispatchVars
    /\ UNCHANGED handshakeVars
    /\ UNCHANGED fileVars
    /\ UNCHANGED <<signalVars, createTimes>>

PeerOpen ==
    PeerOpenStep /\ UNCHANGED <<callVars, chatVars, supportVars>>

\* peer.on('error') and peer.on('disconnected'): both clear the flag (the
\* reconnect and the delayed re-initialization they may start are covered by
\* PeerOpen and RegisterPeer)
PeerError ==
    /\ peer \in {"pending", "open"}
    /\ isReinitializing
    /\ isReinitializing' = FALSE
    /\ UNCHANGED <<now, peer, lastReinitTime, chan, nextChan, connections,
                   statusHandlers, status, contactStatus>>
    /\ UNCHANGED relayVars
    /\ UNCHANGED dispatchVars
    /\ UNCHANGED handshakeVars
    /\ UNCHANGED <<callVars, chatVars, supportVars>>
    /\ UNCHANGED fileVars
    /\ UNCHANGED <<signalVars, createTimes>>

\* setupConnection: "Store connection if it's incoming"
StoreIfAbsent(conns, r, ch) ==
    IF conns[r] = 0 THEN [conns EXCEPT ![r] = ch] ELSE conns

\* peer.on('connection'): the remote peer r opened a channel to us
PeerConnection(r) ==
    /\ peer = "open"
    /\ nextChan < MaxChan
    /\ nextChan' = nextChan + 1
    /\ chan' = [chan EXCEPT ![nextChan'] = NewChan(r, FALSE, 0)]
    /\ connections' = StoreIfAbsent(connections, r, nextChan')
    /\ UNCHANGED <<now, peer, isReinitializing, lastReinitTime,
                   statusHandlers, status, contactStatus>>
    /\ UNCHANGED relayVars
    /\ UNCHANGED dispatchVars
    /\ UNCHANGED handshakeVars
    /\ UNCHANGED <<callVars, chatVars, supportVars>>
    /\ UNCHANGED fileVars
    /\ UNCHANGED <<signalVars, createTimes>>

\* WebRTCManager.connectToPeer(contact), entered with the handlers hs, the
\* status map st, the presence store cs and the connection map conns; the
\* outcome is "resolved" (a record exists), "rejected" (no Peer instance, or
\* peer.connect failed) or "pending" (a new channel was requested).
ManagerOutcome(conns, c) ==
    IF conns[PeerIdOf(c)] # 0 THEN "resolved"
    ELSE IF peer \in {"null", "destroyed"} THEN "rejected"
    ELSE "pending"

\* the channel objects and the connection map after the manager's
\* connectToPeer: a new channel is requested and stored only when no record
\* exists and peer.connect succeeds
ManagerChannels(conns, c) ==
    LET r == PeerIdOf(c)
        outcome == ManagerOutcome(conns, c)
    IN /\ outcome = "pending" => nextChan < MaxChan
       /\ nextChan' = IF outcome = "pending" THEN nextChan + 1 ELSE nextChan
       /\ chan' = IF outcome = "pending"
                  THEN [chan EXCEPT ![nextChan'] = NewChan(r, TRUE, c)]
                  ELSE chan
       /\ connections' = IF outcome = "pending"
                         THEN [conns EXCEPT ![r] = nextChan']
                         ELSE conns

\* the promise the manager's connectToPeer returns: resolved at once when a
\* record exists, rejected at once without a usable Peer instance, otherwise
\* left to the events of the channel it requested
ManagerCall(conns, c) ==
    LET r == PeerIdOf(c)
        outcome == ManagerOutcome(conns, c)
    IN /\ promise' = IF outcome = "pending"
                     THEN [promise EXCEPT ![nextChan'] = "pending"]
                     ELSE promise
       /\ lastCall' = Call("connect", r, conns[r] # 0,
                           IF outcome = "pending" THEN nextChan' ELSE 0,
                           outcome)

\* the statuses the manager's connectToPeer reports, in order: nothing when
\* it resolves at once or finds no Peer instance; 'connecting' before
\* peer.connect; then 'failed' from the catch block when peer.connect fails
\* (the instance is destroyed)
ManagerReports(conns, c) ==
    IF ManagerOutcome(conns, c) = "resolved" \/ peer = "null" THEN <<>>
    ELSE IF peer = "destroyed" THEN <<"connecting", "failed">>
    ELSE <<"connecting">>

RECURSIVE ReportStatus(_, _, _, _)
ReportStatus(hs, st, c, reports) ==
    IF reports = <<>> THEN st
    ELSE ReportStatus(hs, NotifyStatus(hs, st, c, Head(reports)), c,
                      Tail(reports))

RECURSIVE ReportPresence(_, _, _, _)
ReportPresence(hs, cs, c, reports) ==
    IF reports = <<>> THEN cs
    ELSE ReportPresence(hs, NotifyPresence(hs, cs, c, Head(reports)), c,
                        Tail(reports))

\* ChatWindow.setupPeerConnection calls connectToPeer only when the status
\* it sees is neither 'connected' nor 'connecting'
CallerGuard(c) == status[c] \notin {"connected", "connecting"}

\* what the provider's connectToPeer stores before it calls the manager
ProviderFirstStatus(c) == [status EXCEPT ![c] = "connecting"]

\* PeerConnectionProvider.connectToPeer(contact): sets 'connecting',
\* registers the status handler, awaits the manager's connectToPeer and
\* sets 'failed' if that rejects.
ProviderConnectToPeerStep(c) ==
    /\ CallerGuard(c)
    /\ statusHandlers' = statusHandlers \cup {c}
    /\ ManagerChannels(connections, c)
    /\ LET reports == ManagerReports(connections, c)
           reported == ReportStatus(statusHandlers', ProviderFirstStatus(c),
                                    c, reports)
       IN /\ status' = IF ManagerOutcome(connections, c) = "rejected"
                       THEN [reported EXCEPT ![c] = "failed"]
                       ELSE reported
          /\ contactStatus' = ReportPresence(statusHandlers', contactStatus,
                                             c, reports)
    /\ UNCHANGED <<now, peer, isReinitializing, lastReinitTime>>
    /\ UNCHANGED relayVars
    /\ UNCHANGED dispatchVars
    /\ UNCHANGED handshakeVars
    /\ UNCHANGED fileVars
    /\ UNCHANGED <<signalVars, createTimes>>

ProviderConnectToPeer(c) ==
    ProviderConnectToPeerStep(c) /\ UNCHANGED <<callVars, chatVars, supportVars>>

\* the same call with the promise of the manager's connectToPeer
ProviderConnectToPeerCall(c) ==
    /\ ProviderConnectToPeerStep(c)
    /\ ManagerCall(connections, c)
    /\ UNCHANGED ensuring
    /\ UNCHANGED <<chatVars, supportVars>>

\* a connection map that keeps a record whose channel is not open
KeepStale(r) == connections

\* the connection map after ensureConnection/sendMessage dropped a record
\* whose channel is not open
DropStale(r) ==
    IF connections[r] # 0 /\ ~Open(connections[r])
    THEN [connections EXCEPT ![r] = 0]
    ELSE connections

\* what ensureConnection returns after its wait: newConn ? newConn.open : false
EnsureResultAnyRecord(conns, r) == conns[r] # 0

EnsureResult(conns, r) == conns[r] # 0 /\ Open(conns[r])

\* WebRTCManager.ensureConnection(contact), up to its first await: nothing
\* to do when the recorded channel is open; otherwise a record that is not
\* open is dropped and connectToPeer is called.
EnsureConnectionStep(c) ==
    /\ ~(connections[PeerIdOf(c)] # 0 /\ Open(connections[PeerIdOf(c)]))
    /\ ManagerChannels(DropStale(PeerIdOf(c)), c)
    /\ LET reports == ManagerReports(DropStale(PeerIdOf(c)), c)
       IN /\ status' = ReportStatus(statusHandlers, status, c, reports)
          /\ contactStatus' = ReportPresence(statusHandlers, contactStatus,
                                             c, reports)
    /\ UNCHANGED <<now, peer, isReinitializing, lastReinitTime,
                   statusHandlers>>
    /\ UNCHANGED relayVars
    /\ UNCHANGED dispatchVars
    /\ UNCHANGED handshakeVars
    /\ UNCHANGED fileVars
    /\ UNCHANGED <<signalVars, createTimes>>

EnsureConnection(c) ==
    EnsureConnectionStep(c) /\ UNCHANGED <<callVars, chatVars, supportVars>>

\* ensureConnection finds the recorded channel open and returns true
EnsureFast(c) ==
    /\ ensuring[c].stage = "idle"
    /\ connections[PeerIdOf(c)] # 0 /\ Open(connections[PeerIdOf(c)])
    /\ lastCall' = Call("ensure", PeerIdOf(c), TRUE,
                        connections[PeerIdOf(c)], "true")
    /\ UNCHANGED <<promise, ensuring>>
    /\ UNCHANGED <<chatVars, supportVars>>
    /\ UNCHANGED clientVars
    /\ UNCHANGED relayVars
    /\ UNCHANGED dispatchVars
    /\ UNCHANGED handshakeVars
    /\ UNCHANGED fileVars
    /\ UNCHANGED <<signalVars, createTimes>>

\* ensureConnection calls connectToPeer and awaits its promise: a promise
\* that is pending is awaited, one resolved at once leads to the wait, one
\* rejected at once to the catch block
EnsureConnectionAwaits(c) ==
    /\ ensuring[c].stage = "idle"
    /\ EnsureConnectionStep(c)
    /\ ManagerCall(DropStale(PeerIdOf(c)), c)
    /\ LET outcome == ManagerOutcome(DropStale(PeerIdOf(c)), c)
       IN ensuring' = [ensuring EXCEPT ![c] =
            [stage |-> IF outcome = "pending" THEN "connecting"
                       ELSE IF outcome = "resolved" THEN "waiting"
                       ELSE "failing",
             chan |-> IF outcome = "pending" THEN nextChan' ELSE 0]]

EnsureConnectionCall(c) ==
    EnsureConnectionAwaits(c) /\ UNCHANGED <<chatVars, supportVars>>

\* the promise ensureConnection awaits has settled: resolved, it waits
\* 1000 ms; rejected, it goes to its catch block
EnsureSettled(c) ==
    /\ ensuring[c].stage = "connecting"
    /\ promise[ensuring[c].chan] \in {"resolved", "rejected"}
    /\ ensuring' = [ensuring EXCEPT ![c].stage =
                       IF promise[ensuring[c].chan] = "resolved"
                       THEN "waiting" ELSE "failing"]
    /\ UNCHANGED <<lastCall, promise>>
    /\ UNCHANGED <<chatVars, supportVars>>
    /\ UNCHANGED clientVars
    /\ UNCHANGED relayVars
    /\ UNCHANGED dispatchVars
    /\ UNCHANGED handshakeVars
    /\ UNCHANGED fileVars
    /\ UNCHANGED <<signalVars, createTimes>>

\* ensureConnection returns: after the wait, whether the record of the
\* peer is an open channel; from the catch block, false
EnsureReturn(c) ==
    /\ ensuring[c].stage \in {"waiting", "failing"}
    /\ LET r == PeerIdOf(c)
           ok == ensuring[c].stage = "waiting" /\ EnsureResult(connections, r)
       IN lastCall' = Call("ensure", r, FALSE,
                           IF ok THEN connections[r] ELSE 0,
                           IF ok THEN "true" ELSE "false")
    /\ ensuring' = [ensuring EXCEPT ![c] = [stage |-> "idle", chan |-> 0]]
    /\ UNCHANGED promise
    /\ UNCHANGED <<chatVars, supportVars>>
    /\ UNCHANGED clientVars
    /\ UNCHANGED relayVars
    /\ UNCHANGED dispatchVars
    /\ UNCHANGED handshakeVars
    /\ UNCHANGED fileVars
    /\ UNCHANGED <<signalVars, createTimes>>

\* the connection map after sendMessage
AfterSendMessage(r, throws) ==
    IF connections[r] # 0 /\ Open(connections[r])
    THEN (IF throws THEN [connections EXCEPT ![r] = 0] ELSE connections)
    ELSE DropStale(r)

\* the record of the call sendMessage(r, message): true after conn.send on
\* an open channel, false from the catch block and for every other record
SendMessageReturns(r, throws) ==
    IF connections[r] # 0 /\ Open(connections[r]) /\ ~throws
    THEN Call("send", r, TRUE, connections[r], "true")
    ELSE Call("send", r, connections[r] # 0, 0, "false")

\* WebRTCManager.sendMessage(peerId, message): an open channel is sent the
\* message, and loses its record if conn.send throws; a record that is not
\* open is dropped
SendMessageStep(r, throws) ==
    /\ connections' = AfterSendMessage(r, throws)
    /\ UNCHANGED <<now, peer, isReinitializing, lastReinitTime, chan,
                   nextChan, statusHandlers, status, contactStatus>>
    /\ UNCHANGED relayVars
    /\ UNCHANGED dispatchVars
    /\ UNCHANGED handshakeVars
    /\ UNCHANGED fileVars
    /\ UNCHANGED <<signalVars, createTimes>>

SendMessage(r, throws) ==
    SendMessageStep(r, throws) /\ UNCHANGED <<callVars, chatVars, supportVars>>

\* the same call with the value sendMessage returns
SendMessageCall(r, throws) ==
    /\ SendMessageStep(r, throws)
    /\ lastCall' = SendMessageReturns(r, throws)
    /\ UNCHANGED <<promise, ensuring>>
    /\ UNCHANGED <<chatVars, supportVars>>

\* a promise that no event settles
SettleNever(p, ch, outcome) == p

\* resolve() or reject(err) in a handler connectToPeer attached to its
\* channel: a promise that has settled stays as it is
Settle(p, ch, outcome) ==
    IF p[ch] = "pending" THEN [p EXCEPT ![ch] = outcome] ELSE p

\* conn.on('open'): the handler connectToPeer attached to an outgoing
\* channel reports 'connected'
ChanOpenStep(ch) ==
    /\ peer = "open"
    /\ chan[ch].st = "pending"
    /\ chan' = [chan EXCEPT ![ch].st = "open"]
    /\ status' = IF chan[ch].out
                 THEN NotifyStatus(statusHandlers, status, chan[ch].contact,
                                   "connected")
                 ELSE status
    /\ contactStatus' =
         IF chan[ch].out
         THEN NotifyPresence(statusHandlers, contactStatus, chan[ch].contact,
                             "connected")
         ELSE contactStatus
    /\ UNCHANGED <<now, peer, isReinitializing, lastReinitTime, nextChan,
                   connections, statusHandlers>>
    /\ UNCHANGED relayVars
    /\ UNCHANGED dispatchVars
    /\ UNCHANGED handshakeVars
    /\ UNCHANGED fileVars
    /\ UNCHANGED <<signalVars, createTimes>>

ChanOpen(ch) ==
    ChanOpenStep(ch) /\ UNCHANGED <<callVars, chatVars, supportVars>>

\* the same event with resolve() of the promise connectToPeer returned
ChanOpenCall(ch) ==
    /\ ChanOpenStep(ch)
    /\ promise' = Settle(promise, ch, "resolved")
    /\ UNCHANGED <<lastCall, ensuring>>
    /\ UNCHANGED <<chatVars, supportVars>>

\* conn.on('error'): setupConnection's handler only logs; the handler
\* connectToPeer attached to an outgoing channel reports 'failed'
ChanErrorStep(ch) ==
    /\ Live(ch)
    /\ status' = IF chan[ch].out
                 THEN NotifyStatus(statusHandlers, status, chan[ch].contact,
                                   "failed")
                 ELSE status
    /\ contactStatus' =
         IF chan[ch].out
         THEN NotifyPresence(statusHandlers, contactStatus, chan[ch].contact,
                             "failed")
         ELSE contactStatus
    /\ UNCHANGED <<now, peer, isReinitializing, lastReinitTime, chan,
                   nextChan, connections, statusHandlers>>
    /\ UNCHANGED relayVars
    /\ UNCHANGED dispatchVars
    /\ UNCHANGED handshakeVars
    /\ UNCHANGED fileVars
    /\ UNCHANGED <<signalVars, createTimes>>

ChanError(ch) ==
    ChanErrorStep(ch) /\ UNCHANGED <<callVars, chatVars, supportVars>>

\* the same event, recorded, with reject(err) of the promise connectToPeer
\* returned
ChanErrorCall(ch) ==
    /\ ChanErrorStep(ch)
    /\ promise' = Settle(promise, ch, "rejected")
    /\ lastCall' = Call("error", chan[ch].peer, FALSE, ch, "none")
    /\ UNCHANGED ensuring
    /\ UNCHANGED <<chatVars, supportVars>>

\* conn.on('close') of setupConnection: this.connections.delete(peerId)
CloseHandler(conns, ch) == [conns EXCEPT ![chan[ch].peer] = 0]

\* the channel is closed by the remote peer or by the transport
ChanClose(ch) ==
    /\ Live(ch)
    /\ chan' = [chan EXCEPT ![ch].st = "closed"]
    /\ connections' = CloseHandler(connections, ch)
    /\ UNCHANGED <<now, peer, isReinitializing, lastReinitTime, nextChan,
                   statusHandlers, status, contactStatus>>
    /\ UNCHANGED relayVars
    /\ UNCHANGED dispatchVars
    /\ UNCHANGED handshakeVars
    /\ UNCHANGED <<callVars, chatVars, supportVars>>
    /\ UNCHANGED fileVars
    /\ UNCHANGED <<signalVars, createTimes>>

\* WebRTCManager.disconnect(peerId)
Disconnect(r) ==
    /\ connections[r] # 0
    /\ chan' = [chan EXCEPT ![connections[r]].st = "closed"]
    /\ connections' = [connections EXCEPT ![r] = 0]
    /\ UNCHANGED <<now, peer, isReinitializing, lastReinitTime, nextChan,
                   statusHandlers, status, contactStatus>>
    /\ UNCHANGED relayVars
    /\ UNCHANGED dispatchVars
    /\ UNCHANGED handshakeVars
    /\ UNCHANGED <<callVars, chatVars, supportVars>>
    /\ UNCHANGED fileVars
    /\ UNCHANGED <<signalVars, createTimes>>

\* this.ws.close(): an open or connecting socket starts closing; its
\* 'close' event is dispatched later
CloseCalled(w) == IF w \in {"connecting", "open"} THEN "closing" ELSE w

\* WebRTCManager.disconnectAll(): every recorded channel is closed, the map
\* cleared, the Peer instance destroyed, which closes its other channels,
\* and the signaling socket closed
DisconnectAll ==
    /\ chan' = AllClosed
    /\ connections' = [r \in RemotePeers |-> 0]
    /\ peer' = IF peer = "null" THEN "null" ELSE "destroyed"
    /\ isReinitializing' = IF peer = "null" THEN isReinitializing ELSE FALSE
    /\ ws' = CloseCalled(ws)
    /\ UNCHANGED <<now, lastReinitTime, nextChan, statusHandlers, status,
                   contactStatus>>
    /\ UNCHANGED relayVars
    /\ UNCHANGED dispatchVars
    /\ UNCHANGED handshakeVars
    /\ UNCHANGED <<callVars, chatVars, supportVars>>
    /\ UNCHANGED fileVars
    /\ UNCHANGED <<reconnectAttempts, reconnectTimers, scheduledSinceOpen,
                   createTimes>>

\* the statuses a peer-status message of the relay may carry: the relay
\* forwards the status field of a status-update frame as it is
ReportedStatuses == PresenceStatuses \cup {"away"}

\* a handler that stores the status as reported, for comparison
PresenceAsReported(st) == st

\* status === 'online' ? 'online' : 'offline', and
\* status === 'online' ? 'connected' : 'disconnected'
PresenceOf(st) == IF st = "online" THEN "online" ELSE "offline"
StatusOf(st) == IF st = "online" THEN "connected" ELSE "disconnected"

\* the handler the provider registers with onPeerStatusChange, run for a
\* peer-status message of the relay: contacts.find(c => c.peerId === peerId)
\* (contact c has peer id c); a known contact's presence is stored and its
\* connection status set to 'connected' or 'disconnected'
PeerStatusEventStep(r, st) ==
    /\ contactStatus' = IF r \in Contacts
                        THEN [contactStatus EXCEPT ![r] = PresenceOf(st)]
                        ELSE contactStatus
    /\ status' = IF r \in Contacts
                 THEN [status EXCEPT ![r] = StatusOf(st)]
                 ELSE status
    /\ UNCHANGED <<now, peer, isReinitializing, lastReinitTime, chan,
                   nextChan, connections, statusHandlers>>
    /\ UNCHANGED relayVars
    /\ UNCHANGED dispatchVars
    /\ UNCHANGED handshakeVars
    /\ UNCHANGED fileVars
    /\ UNCHANGED <<signalVars, createTimes>>

PeerStatusEvent(r, st) ==
    PeerStatusEventStep(r, st) /\ UNCHANGED <<callVars, chatVars, supportVars>>

\* the same event, recorded
PeerStatusReport(r, st) ==
    /\ PeerStatusEventStep(r, st)
    /\ lastPresence' = [turn |-> ~lastPresence.turn, peer |-> r, st |-> st]
    /\ UNCHANGED <<reinitTimers, lastError, callbacks, contactEvents,
                   registerSent, relayHolds>>
    /\ UNCHANGED <<callVars, chatVars>>

Next ==
    \/ Tick
    \/ \E throws \in BOOLEAN : RegisterPeer(throws)
    \/ PeerOpen
    \/ PeerError
    \/ \E r \in RemotePeers : PeerConnection(r)
    \/ \E c \in Contacts : ProviderConnectToPeer(c)
    \/ \E c \in Contacts : EnsureConnection(c)
    \/ \E r \in RemotePeers, throws \in BOOLEAN : SendMessage(r, throws)
    \/ \E ch \in Channels : ChanOpen(ch)
    \/ \E ch \in Channels : ChanError(ch)
    \/ \E ch \in Channels : ChanClose(ch)
    \/ \E r \in RemotePeers : Disconnect(r)
    \/ DisconnectAll
    \/ \E r \in RemotePeers, st \in PresenceStatuses : PeerStatusEvent(r, st)

Spec == Init /\ [][Next]_vars

\* the manager's calls with what they return: the clock and the presence
\* events are left out
CallNext ==
    \/ \E throws \in BOOLEAN : RegisterPeer(throws)
    \/ PeerOpen
    \/ PeerError
    \/ \E r \in RemotePeers : PeerConnection(r)
    \/ \E c \in Contacts : ProviderConnectToPeerCall(c)
    \/ \E c \in Contacts : EnsureFast(c)
    \/ \E c \in Contacts : EnsureConnectionCall(c)
    \/ \E c \in Contacts : EnsureSettled(c)
    \/ \E c \in Contacts : EnsureReturn(c)
    \/ \E r \in RemotePeers, throws \in BOOLEAN : SendMessageCall(r, throws)
    \/ \E ch \in Channels : ChanOpenCall(ch)
    \/ \E ch \in Channels : ChanErrorCall(ch)
    \/ \E ch \in Channels : ChanClose(ch)
    \/ \E r \in RemotePeers : Disconnect(r)
    \/ DisconnectAll

CallSpec == Init /\ [][CallNext]_vars

(***************************************************************************)
(* Presence: the reports of the relay and the status transitions of the    *)
(* channels, as the provider stores them.                                  *)
(***************************************************************************)
PresenceNext ==
    \/ \E throws \in BOOLEAN : RegisterPeer(throws)
    \/ PeerOpen
    \/ \E r \in RemotePeers : PeerConnection(r)
    \/ \E c \in Contacts : ProviderConnectToPeer(c)
    \/ \E ch \in Channels : ChanOpen(ch)
    \/ \E ch \in Channels : ChanError(ch)
    \/ \E ch \in Channels : ChanClose(ch)
    \/ \E r \in RemotePeers, st \in ReportedStatuses : PeerStatusReport(r, st)

PresenceSpec == Init /\ [][PresenceNext]_vars

(***************************************************************************)
(* Errors of the Peer instance and of a channel.                           *)
(***************************************************************************)
\* the delay of the re-initialization a fatal error schedules (ms), the
\* error types of the transport library told apart here, and how many
\* re-initializations may be pending at once
ReinitDelay == 5000
ErrorTypes == {"server-error", "peer-unavailable", "network"}
MaxReinitTimers == 2

\* a handler that re-initializes on every server-level error, for comparison
FatalAnyServerError(type, p) == type = "server-error"

\* error.type === 'server-error' && this.peer && this.peer.destroyed
Fatal(type, p) == type = "server-error" /\ p = "destroyed"

\* peer.on('error'): clears the flag and, on a fatal error only, schedules
\* one initializePeer
PeerFails(type) ==
    /\ peer # "null"
    /\ Fatal(type, peer) => Len(reinitTimers) < MaxReinitTimers
    /\ isReinitializing' = FALSE
    /\ reinitTimers' = IF Fatal(type, peer)
                       THEN Append(reinitTimers, ReinitDelay)
                       ELSE reinitTimers
    /\ lastError' = [turn |-> ~lastError.turn, type |-> type]
    /\ UNCHANGED <<now, peer, lastReinitTime, chan, nextChan, connections,
                   statusHandlers, status, contactStatus>>
    /\ UNCHANGED <<callbacks, contactEvents, registerSent, relayHolds,
                   lastPresence>>
    /\ UNCHANGED relayVars
    /\ UNCHANGED dispatchVars
    /\ UNCHANGED handshakeVars
    /\ UNCHANGED <<callVars, chatVars>>
    /\ UNCHANGED fileVars
    /\ UNCHANGED <<signalVars, createTimes>>

\* the transport library destroys the instance; peer.on('close') clears the
\* flag and the connection map
PeerClose ==
    /\ peer \in {"pending", "open"}
    /\ peer' = "destroyed"
    /\ chan' = AllClosed
    /\ isReinitializing' = FALSE
    /\ connections' = [r \in RemotePeers |-> 0]
    /\ UNCHANGED <<now, lastReinitTime, nextChan, statusHandlers, status,
                   contactStatus>>
    /\ UNCHANGED relayVars
    /\ UNCHANGED dispatchVars
    /\ UNCHANGED handshakeVars
    /\ UNCHANGED <<callVars, chatVars, supportVars>>
    /\ UNCHANGED fileVars
    /\ UNCHANGED <<signalVars, createTimes>>

\* the callback of the setTimeout of peer.on('error'): initializePeer, which
\* returns at once during the cooldown
ReinitTimer(throws) ==
    /\ reinitTimers # <<>>
    /\ reinitTimers' = Tail(reinitTimers)
    /\ IF isReinitializing \/ now - lastReinitTime < CooldownMs
       THEN /\ ~throws
            /\ UNCHANGED clientVars
            /\ UNCHANGED relayVars
            /\ UNCHANGED dispatchVars
            /\ UNCHANGED handshakeVars
            /\ UNCHANGED fileVars
            /\ UNCHANGED <<signalVars, createTimes>>
       ELSE InitializePeer(throws)
    /\ UNCHANGED <<lastError, callbacks, contactEvents, registerSent,
                   relayHolds, lastPresence>>
    /\ UNCHANGED <<callVars, chatVars>>

ErrorNext ==
    \/ Tick
    \/ \E throws \in BOOLEAN : RegisterPeer(throws)
    \/ PeerOpen
    \/ PeerClose
    \/ \E type \in ErrorTypes : PeerFails(type)
    \/ \E throws \in BOOLEAN : ReinitTimer(throws)
    \/ \E r \in RemotePeers : PeerConnection(r)
    \/ \E ch \in Channels : ChanOpenCall(ch)
    \/ \E ch \in Channels : ChanErrorCall(ch)
    \/ \E ch \in Channels : ChanClose(ch)

ErrorSpec == Init /\ [][ErrorNext]_vars

(***************************************************************************)
(* The client's signaling socket and its reconnection.                     *)
(***************************************************************************)
sessionVars == <<chan, nextChan, connections, statusHandlers, status,
                 contactStatus>>

\* ws.onopen
WsOpen ==
    /\ ws = "connecting"
    /\ ws' = "open"
    /\ reconnectAttempts' = 0
    /\ scheduledSinceOpen' = 0
    /\ UNCHANGED reconnectTimers
    /\ UNCHANGED <<now, peer, isReinitializing, lastReinitTime, createTimes>>
    /\ UNCHANGED sessionVars
    /\ UNCHANGED relayVars
    /\ UNCHANGED dispatchVars
    /\ UNCHANGED handshakeVars
    /\ UNCHANGED <<callVars, chatVars, supportVars>>
    /\ UNCHANGED fileVars

\* ws.onclose: the socket failed to connect, was lost, or was closed
WsCloseStep ==
    /\ ws \in {"connecting", "open", "closing"}
    /\ ws' = "closed"
    /\ reconnectAttempts' = AttemptReconnect(reconnectAttempts).attempts
    /\ reconnectTimers' =
         reconnectTimers \cup AttemptReconnect(reconnectAttempts).timers
    /\ scheduledSinceOpen' =
         scheduledSinceOpen
           + Cardinality(AttemptReconnect(reconnectAttempts).timers)
    /\ UNCHANGED <<now, peer, isReinitializing, lastReinitTime, createTimes>>
    /\ UNCHANGED sessionVars
    /\ UNCHANGED relayVars
    /\ UNCHANGED dispatchVars
    /\ UNCHANGED handshakeVars
    /\ UNCHANGED fileVars

WsClose ==
    WsCloseStep /\ UNCHANGED <<callVars, chatVars, supportVars>>

\* the setTimeout callback of attemptReconnect: initializeWebSocket()
ReconnectTimerStep(d, throws) ==
    /\ d \in reconnectTimers
    /\ LET r == InitializeWebSocket(throws, ws, reconnectAttempts,
                                    reconnectTimers \ {d})
       IN /\ ws' = r.ws
          /\ reconnectAttempts' = r.attempts
          /\ reconnectTimers' = r.timers
          /\ scheduledSinceOpen' =
               scheduledSinceOpen
                 + (IF throws
                    THEN Cardinality(AttemptReconnect(reconnectAttempts).timers)
                    ELSE 0)
    /\ UNCHANGED <<now, peer, isReinitializing, lastReinitTime, createTimes>>
    /\ UNCHANGED sessionVars
    /\ UNCHANGED relayVars
    /\ UNCHANGED dispatchVars
    /\ UNCHANGED handshakeVars
    /\ UNCHANGED fileVars

ReconnectTimer(d, throws) ==
    ReconnectTimerStep(d, throws) /\ UNCHANGED <<callVars, chatVars, supportVars>>

ReconnectDelays == {ReconnectDelay * k : k \in 1..(MaxReconnectAttempts + 1)}

SignalNext ==
    \/ Tick
    \/ \E throws \in BOOLEAN : RegisterPeer(throws)
    \/ PeerOpen
    \/ PeerError
    \/ DisconnectAll
    \/ WsOpen
    \/ WsClose
    \/ \E d \in ReconnectDelays, throws \in BOOLEAN : ReconnectTimer(d, throws)

SignalSpec == SignalInit /\ [][SignalNext]_vars

(***************************************************************************)
(* Registration of the local peer id with the relay.                       *)
(***************************************************************************)
\* peer.on('open'): the register frame is sent only
\* if (this.ws && this.ws.readyState === WebSocket.OPEN)
PeerOpenRegisters ==
    /\ PeerOpenStep
    /\ registerSent' = (registerSent \/ ws = "open")
    /\ UNCHANGED <<relayHolds, reinitTimers, lastError, callbacks,
                   contactEvents, lastPresence>>
    /\ UNCHANGED <<callVars, chatVars>>

\* the relay handles the register frame: peers.set(currentPeerId, {ws, ...})
RelayRegisters ==
    /\ ws = "open"
    /\ registerSent
    /\ ~relayHolds
    /\ relayHolds' = TRUE
    /\ UNCHANGED <<registerSent, reinitTimers, lastError, callbacks,
                   contactEvents, lastPresence>>
    /\ UNCHANGED <<callVars, chatVars>>
    /\ UNCHANGED <<clientVars, signalVars, createTimes>>
    /\ UNCHANGED relayVars
    /\ UNCHANGED dispatchVars
    /\ UNCHANGED handshakeVars
    /\ UNCHANGED fileVars

\* the socket closes: a frame still in flight is lost, and the relay's
\* close handler deletes the registration made on that socket
WsCloseUnregisters ==
    /\ WsCloseStep
    /\ registerSent' = FALSE
    /\ relayHolds' = FALSE
    /\ UNCHANGED <<reinitTimers, lastError, callbacks, contactEvents,
                   lastPresence>>
    /\ UNCHANGED <<callVars, chatVars>>

\* the reconnect timer: nothing was sent on the socket it creates
ReconnectTimerFresh(d, throws) ==
    /\ ReconnectTimerStep(d, throws)
    /\ registerSent' = FALSE
    /\ relayHolds' = FALSE
    /\ UNCHANGED <<reinitTimers, lastError, callbacks, contactEvents,
                   lastPresence>>
    /\ UNCHANGED <<callVars, chatVars>>

RegistrationNext ==
    \/ Tick
    \/ \E throws \in BOOLEAN : RegisterPeer(throws)
    \/ PeerOpenRegisters
    \/ RelayRegisters
    \/ WsOpen
    \/ WsCloseUnregisters
    \/ \E d \in ReconnectDelays, throws \in BOOLEAN :
          ReconnectTimerFresh(d, throws)

\* the events that happen by themselves once they can: a pending instance
\* or socket opens, and a frame that was sent arrives
RegistrationSpec ==
    /\ SignalInit
    /\ [][RegistrationNext]_vars
    /\ WF_vars(PeerOpenRegisters)
    /\ WF_vars(WsOpen)
    /\ WF_vars(RelayRegisters)

(***************************************************************************)
(* The client's dispatch of inbound channel data.                          *)
(***************************************************************************)
Handlers == 1..NHandlers
GlobalHandlers == 1..NGlobalHandlers

\* What a 'data' event carries: a string (JSON text of envelope 1, or text
\* that is not JSON, body 0) or an already decoded object (envelope 1 or 2).
Payloads ==
    {[str |-> FALSE, body |-> 1], [str |-> FALSE, body |-> 2],
     [str |-> TRUE, body |-> 1], [str |-> TRUE, body |-> 0]}

\* typeof data === 'string' ? JSON.parse(data) : data
Decodable(data) == ~data.str \/ data.body # 0
Decode(data) == data.body

Invocation(kind, h, r, m) ==
    [kind |-> kind, handler |-> h, peer |-> r, message |-> m]

\* a handlePeerData without the try/catch, for comparison
HandlePeerDataNoCatch(handlers, r, data, throws) ==
    IF ~Decodable(data)
    THEN [calls |-> <<>>, escaped |-> TRUE]
    ELSE IF handlers[r] = 0
    THEN [calls |-> <<>>, escaped |-> FALSE]
    ELSE [calls |-> <<Invocation("peer", handlers[r], r, Decode(data))>>,
          escaped |-> throws]

\* handlePeerData(peerId, data): the handlers it invokes, in order, and
\* whether an exception leaves it; throws: the invoked handler throws
HandlePeerData(handlers, r, data, throws) ==
    IF ~Decodable(data)
    THEN [calls |-> <<>>, escaped |-> FALSE]
    ELSE IF handlers[r] = 0
    THEN [calls |-> <<>>, escaped |-> FALSE]
    ELSE [calls |-> <<Invocation("peer", handlers[r], r, Decode(data))>>,
          escaped |-> FALSE]

\* the invocations made while the k-th 'data' event is handled
Logged(invs, k) ==
    [i \in DOMAIN invs |->
        [kind |-> invs[i].kind, handler |-> invs[i].handler,
         peer |-> invs[i].peer, message |-> invs[i].message, at |-> k]]

\* a dispatch that runs the newest invocation before the earlier ones, for
\* comparison
DispatchNewestFirst(log, invs) == invs \o log

\* the handlers run synchronously inside the 'data' callback: after every
\* earlier invocation
Dispatch(log, invs) == log \o invs

\* an onMessage that keeps a handler already registered, for comparison
OnMessageKeepsFirst(handlers, r, h) ==
    IF handlers[r] = 0 THEN [handlers EXCEPT ![r] = h] ELSE handlers

\* this.messageHandlers.set(peerId, handler)
SetHandler(handlers, r, h) == [handlers EXCEPT ![r] = h]

\* WebRTCManager.onMessage(peerId, handler)
ManagerOnMessage(r, h) ==
    /\ messageHandlers' = SetHandler(messageHandlers, r, h)
    /\ lastRegistered' = [lastRegistered EXCEPT ![r] = h]
    /\ UNCHANGED <<globalRequested, inbox, calls, uncaught>>
    /\ UNCHANGED <<clientVars, signalVars, createTimes>>
    /\ UNCHANGED relayVars
    /\ UNCHANGED fileVars
    /\ UNCHANGED handshakeVars
    /\ UNCHANGED <<callVars, chatVars, supportVars>>

\* webrtcManager.onGlobalMessage(handler), as the provider calls it:
\* WebRTCManager defines no such method and keeps no list of global
\* handlers, so the call throws a TypeError and registers nothing
OnGlobalMessage(g) ==
    /\ globalRequested' = globalRequested \cup {g}
    /\ UNCHANGED <<messageHandlers, inbox, calls, uncaught, lastRegistered>>
    /\ UNCHANGED <<clientVars, signalVars, createTimes>>
    /\ UNCHANGED relayVars
    /\ UNCHANGED fileVars
    /\ UNCHANGED handshakeVars
    /\ UNCHANGED <<callVars, chatVars, supportVars>>

\* conn.on('data') of setupConnection, on an open channel
ChanData(ch, data, throws) ==
    /\ Open(ch)
    /\ Len(inbox) < MaxMsgs
    /\ LET r == chan[ch].peer
           res == HandlePeerData(messageHandlers, r, data, throws)
       IN /\ inbox' = Append(inbox, [peer |-> r, chan |-> ch, data |-> data])
          /\ calls' = Dispatch(calls, Logged(res.calls, Len(inbox) + 1))
          /\ uncaught' = (uncaught \/ res.escaped)
    /\ UNCHANGED <<messageHandlers, globalRequested, lastRegistered>>
    /\ UNCHANGED <<clientVars, signalVars, createTimes>>
    /\ UNCHANGED relayVars
    /\ UNCHANGED fileVars
    /\ UNCHANGED handshakeVars
    /\ UNCHANGED <<callVars, chatVars, supportVars>>

DispatchNext ==
    \/ \E throws \in BOOLEAN : RegisterPeer(throws)
    \/ PeerOpen
    \/ \E r \in RemotePeers : PeerConnection(r)
    \/ \E ch \in Channels : ChanOpen(ch)
    \/ \E r \in RemotePeers, h \in Handlers : ManagerOnMessage(r, h)
    \/ \E g \in GlobalHandlers : OnGlobalMessage(g)
    \/ \E ch \in Channels, data \in Payloads, throws \in BOOLEAN :
          ChanData(ch, data, throws)

DispatchSpec == Init /\ [][DispatchNext]_vars

(***************************************************************************)
(* The chat window sending a file: ChatWindow.handleFileChange.            *)
(***************************************************************************)
Smaller(a, b) == IF a < b THEN a ELSE b
Larger(a, b) == IF a < b THEN b ELSE a

\* a chunk count that rounds down
ChunkCountFloor(n) == n \div ChunkSize

\* Math.ceil(arrayBuffer.byteLength / chunkSize)
ChunkCount(n) == (n \div ChunkSize) + (IF n % ChunkSize = 0 THEN 0 ELSE 1)

\* arrayBuffer.slice(start, end) of a buffer of n bytes, start, end >= 0
Slice(n, start, end) ==
    LET first == Smaller(start, n)
        final == Smaller(end, n)
    IN Bytes(first, Larger(final, first))

\* the envelope that announces the file, and the one that carries chunk i
MetadataEnvelope(id, n) ==
    FileEnvelope(MessageId(id), NoFileId, n, ChunkCount(n), -1, Null)

ChunkEnvelope(id, n, i) ==
    LET start == i * ChunkSize
        end == Smaller(start + ChunkSize, n)
    IN FileEnvelope(ChunkMessageId(id, i), MessageId(id), -1, -1, i,
                    Slice(n, start, end))

\* what WebRTCManager.sendMessage returns to the k-th call of a transfer
\* whose channel takes okCount envelopes before a send fails
SendResult(k, okCount) == k <= okCount

\* a chunk loop that goes on after a failed send
RECURSIVE SendChunksNoBreak(_, _, _, _, _)
SendChunksNoBreak(id, n, i, okCount, log) ==
    IF i >= ChunkCount(n)
    THEN [log |-> log, allChunksSent |-> TRUE]
    ELSE LET chunkSent == SendResult(i + 2, okCount)
             rest == SendChunksNoBreak(id, n, i + 1, okCount,
                        Append(log, [call |-> ChunkEnvelope(id, n, i),
                                     ok |-> chunkSent]))
         IN [log |-> rest.log,
             allChunksSent |-> chunkSent /\ rest.allChunksSent]

\* the chunk loop, from chunk i on: the calls appended to the log and
\* allChunksSent
RECURSIVE SendChunks(_, _, _, _, _)
SendChunks(id, n, i, okCount, log) ==
    IF i >= ChunkCount(n)
    THEN [log |-> log, allChunksSent |-> TRUE]
    ELSE LET chunkSent == SendResult(i + 2, okCount)
             logged == Append(log, [call |-> ChunkEnvelope(id, n, i),
                                    ok |-> chunkSent])
         IN IF ~chunkSent
            THEN [log |-> logged, allChunksSent |-> FALSE]
            ELSE SendChunks(id, n, i + 1, okCount, logged)

\* handleFileChange up to the saved 'sending' record, for a file of n bytes
HandleFileChange(n) ==
    /\ nextFile < NFiles
    /\ nextFile' = nextFile + 1
    /\ records' = [records EXCEPT
                     ![nextFile + 1] = [status |-> "sending", size |-> n]]
    /\ UNCHANGED outbox
    /\ UNCHANGED fileReceiveVars
    /\ UNCHANGED <<clientVars, signalVars, createTimes>>
    /\ UNCHANGED dispatchVars
    /\ UNCHANGED handshakeVars
    /\ UNCHANGED <<callVars, chatVars, supportVars>>
    /\ UNCHANGED relayVars

\* the rest of handleFileChange: ensureConnection, the metadata, the
\* chunks and the final status of the record
SendFile(id, isConnected, okCount) ==
    /\ records[id].status = "sending"
    /\ LET n == records[id].size
           metadataSent == SendResult(1, okCount)
           announced == Append(outbox, [call |-> MetadataEnvelope(id, n),
                                        ok |-> metadataSent])
           res == SendChunks(id, n, 0, okCount, announced)
       IN IF ~isConnected
          THEN /\ records' = [records EXCEPT ![id].status = "failed"]
               /\ UNCHANGED outbox
          ELSE IF ~metadataSent
          THEN /\ records' = [records EXCEPT ![id].status = "failed"]
               /\ outbox' = announced
          ELSE /\ records' = [records EXCEPT ![id].status =
                                IF res.allChunksSent THEN "sent" ELSE "failed"]
               /\ outbox' = res.log
    /\ UNCHANGED nextFile
    /\ UNCHANGED fileReceiveVars
    /\ UNCHANGED <<clientVars, signalVars, createTimes>>
    /\ UNCHANGED dispatchVars
    /\ UNCHANGED handshakeVars
    /\ UNCHANGED <<callVars, chatVars, supportVars>>
    /\ UNCHANGED relayVars

FileSendNext ==
    \/ \E n \in FileSizes : HandleFileChange(n)
    \/ \E id \in FileIds, isConnected \in BOOLEAN,
          okCount \in 0..(MaxFileChunks + 1) :
          SendFile(id, isConnected, okCount)

FileSendSpec == Init /\ [][FileSendNext]_vars

(***************************************************************************)
(* The chat window receiving a file: the 'file' branch of the handler      *)
(* that ChatWindow.setupPeerConnection registers.                          *)
(***************************************************************************)
ChunkData == {Bytes(0, k) : k \in 1..NChunkData}

\* the 'file' envelopes a peer delivers: metadata declaring 0..MaxFileChunks
\* chunks, and chunks with an index in or next to that range
\* the transfers whose envelopes are delivered in any order
RxFiles == 1..(IF NRxFiles < NFiles THEN NRxFiles ELSE NFiles)

RxEnvelopes ==
    {FileEnvelope(MessageId(f), NoFileId, 0, c, -1, Null) :
        f \in RxFiles, c \in 0..MaxFileChunks}
    \cup
    {FileEnvelope(ChunkMessageId(e[1], e[2]), MessageId(e[1]), -1, -1, e[2], e[3]) :
        e \in RxFiles \X (-1..MaxFileChunks) \X ChunkData}

\* the session the metadata branch stores
NewSession(env) ==
    [has |-> TRUE, meta |-> env.chunks,
     chunks |-> [i \in 1..env.chunks |-> Null], receivedCount |-> 0]

\* A byte sequence is written as the runs of file bytes it is made of, in
\* order: no run is empty and no run continues the one before it.
AppendRun(content, run) ==
    IF run.from >= run.to
    THEN content
    ELSE IF content # <<>> /\ content[Len(content)].to = run.from
    THEN [content EXCEPT ![Len(content)].to = run.to]
    ELSE Append(content, run)

\* the bytes of a file of n bytes
FileContent(n) == AppendRun(<<>>, Bytes(0, n))

\* a reassembly that starts from the last slot
RECURSIVE ReconstructBackwards(_, _, _)
ReconstructBackwards(chunks, i, acc) ==
    IF i > Len(chunks)
    THEN acc
    ELSE ReconstructBackwards(chunks, i + 1,
                              AppendRun(acc, chunks[Len(chunks) + 1 - i]))

\* completeFile: the slots from slot i on, copied after acc in index order
RECURSIVE Reconstruct(_, _, _)
Reconstruct(chunks, i, acc) ==
    IF i > Len(chunks)
    THEN acc
    ELSE Reconstruct(chunks, i + 1, AppendRun(acc, chunks[i]))

\* a chunk branch that counts every chunk it is given
ReceiveChunkAlwaysCounts(sessions, env) ==
    LET f == env.fileId
        t == sessions[f]
        i == env.chunkIndex + 1
        u == IF i \in DOMAIN t.chunks
             THEN [t EXCEPT !.chunks[i] = env.chunkData,
                            !.receivedCount = @ + 1]
             ELSE [t EXCEPT !.receivedCount = @ + 1]
    IN IF ~t.has
       THEN [sessions |-> sessions, finish |-> FALSE]
       ELSE [sessions |-> [sessions EXCEPT ![f] = u],
             finish |-> u.receivedCount = Len(u.chunks)]

\* a chunk branch that starts a session for a chunk that has none
ReceiveChunkAdopts(sessions, env) ==
    [sessions |-> [sessions EXCEPT ![env.fileId] =
                      [has |-> TRUE, meta |-> 1, chunks |-> <<env.chunkData>>,
                       receivedCount |-> 1]],
     finish |-> FALSE]

\* the chunk branch, up to its first await: the sessions it leaves, and
\* whether it goes on to save the file message
ReceiveChunk(sessions, env) ==
    LET f == env.fileId
        t == sessions[f]
        i == env.chunkIndex + 1
        fresh == i \in DOMAIN t.chunks /\ t.chunks[i] = Null
        u == IF fresh
             THEN [t EXCEPT !.chunks[i] = env.chunkData,
                            !.receivedCount = @ + 1]
             ELSE t
    IN IF ~t.has
       THEN [sessions |-> sessions, finish |-> FALSE]
       ELSE IF u.receivedCount # Len(u.chunks)
       THEN [sessions |-> [sessions EXCEPT ![f] = u], finish |-> FALSE]
       ELSE IF \E j \in DOMAIN u.chunks : u.chunks[j] = Null
       THEN [sessions |-> [sessions EXCEPT ![f] = NoSession], finish |-> FALSE]
       ELSE [sessions |-> [sessions EXCEPT ![f] = u], finish |-> TRUE]

\* the 'file' branch of the handler, given an envelope, up to its first
\* await: a completed file waits for saveMessage with the bytes it was
\* reassembled to
HandleFile(env) ==
    /\ lastRx' = [turn |-> 1 - lastRx.turn, env |-> env]
    /\ IF env.fileId # NoFileId
       THEN LET res == ReceiveChunk(fileChunks, env)
                bytes == Reconstruct(res.sessions[env.fileId].chunks, 1, <<>>)
            IN /\ res.finish =>
                     /\ Len(finishing) < MaxFinishing
                     /\ Len(finishing) + Len(received) < MaxReceived
               /\ fileChunks' = res.sessions
               /\ finishing' = IF res.finish
                               THEN Append(finishing,
                                           [id |-> env.fileId, bytes |-> bytes])
                               ELSE finishing
       ELSE /\ fileChunks' = [fileChunks EXCEPT
                                ![env.messageId] = NewSession(env)]
            /\ UNCHANGED finishing
    /\ UNCHANGED received

\* the handler is given a 'file' envelope
ReceiveFile(env) ==
    /\ HandleFile(env)
    /\ UNCHANGED wirePos
    /\ UNCHANGED fileSendVars
    /\ UNCHANGED <<clientVars, signalVars, createTimes>>
    /\ UNCHANGED dispatchVars
    /\ UNCHANGED handshakeVars
    /\ UNCHANGED <<callVars, chatVars, supportVars>>
    /\ UNCHANGED relayVars

\* the handler resumes after saveMessage: the file message is added to the
\* chat and the session is deleted
FinishReceive(f) ==
    /\ finishing # <<>>
    /\ Head(finishing).id = f
    /\ finishing' = Tail(finishing)
    /\ received' = Append(received, Head(finishing))
    /\ fileChunks' = [fileChunks EXCEPT ![f] = NoSession]
    /\ UNCHANGED <<lastRx, wirePos>>
    /\ UNCHANGED fileSendVars
    /\ UNCHANGED <<clientVars, signalVars, createTimes>>
    /\ UNCHANGED dispatchVars
    /\ UNCHANGED handshakeVars
    /\ UNCHANGED <<callVars, chatVars, supportVars>>
    /\ UNCHANGED relayVars

FileReceiveNext ==
    \/ \E env \in RxEnvelopes : ReceiveFile(env)
    \/ \E f \in FileKeys : FinishReceive(f)

FileReceiveSpec == Init /\ [][FileReceiveNext]_vars

(***************************************************************************)
(* A transfer end to end: the channel hands the envelopes that sendMessage *)
(* accepted to the receiving chat window, in the order they were sent.     *)
(***************************************************************************)
\* the next sendMessage call is carried over: an accepted envelope reaches
\* the receiver's handler, a refused one was never handed to the channel
Deliver ==
    /\ wirePos < Len(outbox)
    /\ wirePos' = wirePos + 1
    /\ IF outbox[wirePos + 1].ok
       THEN HandleFile(outbox[wirePos + 1].call)
       ELSE UNCHANGED <<fileChunks, finishing, received, lastRx>>
    /\ UNCHANGED fileSendVars
    /\ UNCHANGED <<clientVars, signalVars, createTimes>>
    /\ UNCHANGED dispatchVars
    /\ UNCHANGED handshakeVars
    /\ UNCHANGED <<callVars, chatVars, supportVars>>
    /\ UNCHANGED relayVars

FileTransferNext ==
    \/ \E n \in FileSizes : HandleFileChange(n)
    \/ \E id \in FileIds, isConnected \in BOOLEAN,
          okCount \in 0..(MaxFileChunks + 1) :
          SendFile(id, isConnected, okCount)
    \/ Deliver
    \/ \E f \in FileKeys : FinishReceive(f)

\* the channel delivers what it accepted, and saveMessage returns
FileTransferSpec ==
    /\ Init
    /\ [][FileTransferNext]_vars
    /\ WF_vars(Deliver)
    /\ WF_vars(\E f \in FileKeys : FinishReceive(f))

(***************************************************************************)
(* The provider's handler of contact-info envelopes: the callback that     *)
(* initializePeerConnection passes to onGlobalMessage.                     *)
(***************************************************************************)
\* profile.id, the local identity; the ids a channel's remote end can have
LocalId == 0
HandshakeIds == {LocalId} \cup RemotePeers
\* message.data.peerId is absent
NoPayloadId == -1

\* message.data.displayName: absent, a number, or a string of spaces and
\* letters
Texts == {<<>>, <<" ">>, <<"a">>, <<" ", "a", " ">>}
PayloadNames ==
    {[kind |-> "missing", text |-> <<>>], [kind |-> "number", text |-> <<>>]}
    \cup {[kind |-> "string", text |-> s] : s \in Texts}

\* String.prototype.trim
RECURSIVE Trim(_)
Trim(s) ==
    IF s = <<>> THEN s
    ELSE IF Head(s) = " " THEN Trim(Tail(s))
    ELSE IF s[Len(s)] = " " THEN Trim(SubSeq(s, 1, Len(s) - 1))
    ELSE s

\* the envelopes the handler is given
HandshakeMessages ==
    [type : {"contact-info", "chat"},
     peerId : {NoPayloadId} \cup HandshakeIds,
     displayName : PayloadNames]

\* a validation that only refuses the local identity
RejectsSelfOnly(peerId, message) == peerId = LocalId

\* the three validations of the handler: one of them returns
Rejects(peerId, message) ==
    \/ peerId = LocalId
    \/ message.peerId # NoPayloadId /\ message.peerId # peerId
    \/ message.displayName.kind = "missing"
    \/ message.displayName.kind = "string" /\ message.displayName.text = <<>>
    \/ message.displayName.kind # "string"
    \/ Len(Trim(message.displayName.text)) = 0

\* contacts.find(c => c.peerId === peerId) finds a contact
Finds(store, peerId) == \E c \in store : c.peerId = peerId

\* the handler is invoked with the channel's remote id and an envelope,
\* and runs up to await getAllContacts()
ContactInfo(peerId, message) ==
    /\ Len(handshakes) < MaxHandshakes
    /\ handshakes' = Append(handshakes,
          [peerId |-> peerId, message |-> message,
           stage |-> IF message.type # "contact-info" THEN "ignored"
                     ELSE IF Rejects(peerId, message) THEN "rejected"
                     ELSE "reading"])
    /\ UNCHANGED <<contactStore, notified, observed>>
    /\ UNCHANGED fileVars
    /\ UNCHANGED <<callVars, chatVars, supportVars>>
    /\ UNCHANGED <<clientVars, signalVars, createTimes>>
    /\ UNCHANGED dispatchVars
    /\ UNCHANGED relayVars

\* getAllContacts() returns to invocation k: an existing contact ends it,
\* otherwise it goes on to nanoid and saveContact
ContactsRead(k) ==
    /\ k \in DOMAIN handshakes
    /\ handshakes[k].stage = "reading"
    /\ handshakes' = [handshakes EXCEPT ![k].stage =
                         IF Finds(contactStore, handshakes[k].peerId)
                         THEN "skipped" ELSE "saving"]
    /\ UNCHANGED <<contactStore, notified, observed>>
    /\ UNCHANGED fileVars
    /\ UNCHANGED <<callVars, chatVars, supportVars>>
    /\ UNCHANGED <<clientVars, signalVars, createTimes>>
    /\ UNCHANGED dispatchVars
    /\ UNCHANGED relayVars

\* what the handler and onContactsChanged append to the history
ContactEvent(kind, k, o) == [kind |-> kind, by |-> k, who |-> o]

\* contactsChangedCallbacksRef.current.forEach(callback => callback())
RunCallbacks(cbs, k) == [i \in DOMAIN cbs |-> ContactEvent("observer", k, cbs[i])]

\* saveContact(newContact) of invocation k returns: the contact is stored
\* under a fresh id with status 'online', the notification is shown and the
\* contacts-changed callbacks run, one after the other
ContactSaved(k) ==
    /\ k \in DOMAIN handshakes
    /\ handshakes[k].stage = "saving"
    /\ handshakes' = [handshakes EXCEPT ![k].stage = "added"]
    /\ contactStore' = contactStore \cup
          {[id |-> k, peerId |-> handshakes[k].peerId,
            displayName |-> Trim(handshakes[k].message.displayName.text),
            status |-> "online"]}
    /\ notified' = Append(notified,
          [name |-> Trim(handshakes[k].message.displayName.text), by |-> k])
    /\ observed' = Append(observed, k)
    /\ contactEvents' = contactEvents
                        \o <<ContactEvent("saved", k, 0),
                             ContactEvent("notified", k, 0)>>
                        \o RunCallbacks(callbacks, k)
    /\ UNCHANGED <<callbacks, reinitTimers, lastError, registerSent,
                   relayHolds, lastPresence>>
    /\ UNCHANGED fileVars
    /\ UNCHANGED <<callVars, chatVars>>
    /\ UNCHANGED <<clientVars, signalVars, createTimes>>
    /\ UNCHANGED dispatchVars
    /\ UNCHANGED relayVars

\* the callbacks a component may pass to onContactsChanged, and how many
\* calls of onContactsChanged there are
NObservers == 2
MaxSubscribes == 2
Observers == 1..NObservers
Subscribes == {i \in DOMAIN contactEvents : contactEvents[i].kind = "subscribe"}

\* onContactsChanged(callback): contactsChangedCallbacksRef.current.push
Subscribe(o) ==
    /\ Cardinality(Subscribes) < MaxSubscribes
    /\ callbacks' = Append(callbacks, o)
    /\ contactEvents' = Append(contactEvents, ContactEvent("subscribe", 0, o))
    /\ UNCHANGED <<reinitTimers, lastError, registerSent, relayHolds,
                   lastPresence>>
    /\ UNCHANGED handshakeVars
    /\ UNCHANGED fileVars
    /\ UNCHANGED <<callVars, chatVars>>
    /\ UNCHANGED <<clientVars, signalVars, createTimes>>
    /\ UNCHANGED dispatchVars
    /\ UNCHANGED relayVars

\* the function onContactsChanged returned, called while the callback is
\* in the list: indexOf and splice(index, 1)
Unsubscribe(o) ==
    /\ \E i \in DOMAIN callbacks : callbacks[i] = o
    /\ LET index == CHOOSE i \in DOMAIN callbacks :
                       /\ callbacks[i] = o
                       /\ \A j \in 1..(i - 1) : callbacks[j] # o
       IN callbacks' = SubSeq(callbacks, 1, index - 1)
                       \o SubSeq(callbacks, index + 1, Len(callbacks))
    /\ contactEvents' = Append(contactEvents,
                               ContactEvent("unsubscribe", 0, o))
    /\ UNCHANGED <<reinitTimers, lastError, registerSent, relayHolds,
                   lastPresence>>
    /\ UNCHANGED handshakeVars
    /\ UNCHANGED fileVars
    /\ UNCHANGED <<callVars, chatVars>>
    /\ UNCHANGED <<clientVars, signalVars, createTimes>>
    /\ UNCHANGED dispatchVars
    /\ UNCHANGED relayVars

HandshakeNext ==
    \/ \E peerId \in HandshakeIds, message \in HandshakeMessages :
          ContactInfo(peerId, message)
    \/ \E k \in 1..MaxHandshakes : ContactsRead(k)
    \/ \E k \in 1..MaxHandshakes : ContactSaved(k)
    \/ \E o \in Observers : Subscribe(o)
    \/ \E o \in Observers : Unsubscribe(o)

HandshakeSpec == Init /\ [][HandshakeNext]_vars

(***************************************************************************)
(* Chat messages: ChatWindow.handleSendMessage and the chat branch of the   *)
(* message handler.                                                        *)
(***************************************************************************)
\* db.put('messages', message): the record under the id is replaced
SaveMessage(store, id, sender, st) ==
    [store EXCEPT ![id] = [sender |-> sender, status |-> st]]

\* handleSendMessage up to its first await: nothing for a blank text or
\* while a send is in flight; otherwise the record is built with status
\* 'sending' and saveMessage is called
HandleSendMessage(c, text) ==
    /\ Trim(text) # <<>> /\ ~isSending
    /\ nextMessage < MaxSends
    /\ nextMessage' = nextMessage + 1
    /\ isSending' = TRUE
    /\ chatStore' = SaveMessage(chatStore, nextMessage', "me", "sending")
    /\ sendStage' = [stage |-> "saving", id |-> nextMessage', contact |-> c]
    /\ UNCHANGED <<callVars, supportVars>>
    /\ UNCHANGED clientVars
    /\ UNCHANGED relayVars
    /\ UNCHANGED dispatchVars
    /\ UNCHANGED handshakeVars
    /\ UNCHANGED fileVars
    /\ UNCHANGED <<signalVars, createTimes>>

\* what follows a value of ensureConnection: false saves 'failed'; true
\* calls sendMessage and saves 'sent' or 'failed' by what it returns
SendAndUpdate(isConnected, throws) ==
    LET r == PeerIdOf(sendStage.contact)
    IN /\ connections' = IF isConnected THEN AfterSendMessage(r, throws)
                         ELSE connections
       /\ lastCall' = IF isConnected THEN SendMessageReturns(r, throws)
                      ELSE Call("ensure", r, FALSE, 0, "false")
       /\ chatStore' =
            SaveMessage(chatStore, sendStage.id, "me",
                        IF isConnected
                           /\ SendMessageReturns(r, throws).result = "true"
                        THEN "sent" ELSE "failed")
       /\ sendStage' = [sendStage EXCEPT !.stage = "updating"]

\* the first saveMessage has resolved: ensureConnection is called. With an
\* open record it returns true and the message is sent; otherwise it calls
\* connectToPeer and the handler waits for it.
ChatEnsure(throws) ==
    /\ sendStage.stage = "saving"
    /\ LET c == sendStage.contact
       IN IF connections[PeerIdOf(c)] # 0 /\ Open(connections[PeerIdOf(c)])
          THEN /\ ensuring[c].stage = "idle"
               /\ SendAndUpdate(TRUE, throws)
               /\ UNCHANGED <<promise, ensuring>>
               /\ UNCHANGED <<now, peer, isReinitializing, lastReinitTime,
                              chan, nextChan, statusHandlers, status,
                              contactStatus>>
               /\ UNCHANGED relayVars
               /\ UNCHANGED dispatchVars
               /\ UNCHANGED handshakeVars
               /\ UNCHANGED fileVars
               /\ UNCHANGED <<signalVars, createTimes>>
          ELSE /\ EnsureConnectionAwaits(c)
               /\ sendStage' = [sendStage EXCEPT !.stage = "ensuring"]
               /\ UNCHANGED chatStore
    /\ UNCHANGED <<nextMessage, isSending, supportVars>>

\* ensureConnection returns to handleSendMessage, which goes on at once
ChatSendNow(throws) ==
    /\ sendStage.stage = "ensuring"
    /\ ensuring[sendStage.contact].stage \in {"waiting", "failing"}
    /\ SendAndUpdate(ensuring[sendStage.contact].stage = "waiting"
                       /\ EnsureResult(connections,
                                       PeerIdOf(sendStage.contact)),
                     throws)
    /\ ensuring' = [ensuring EXCEPT ![sendStage.contact] =
                       [stage |-> "idle", chan |-> 0]]
    /\ UNCHANGED promise
    /\ UNCHANGED <<nextMessage, isSending, supportVars>>
    /\ UNCHANGED <<now, peer, isReinitializing, lastReinitTime, chan,
                   nextChan, statusHandlers, status, contactStatus>>
    /\ UNCHANGED relayVars
    /\ UNCHANGED dispatchVars
    /\ UNCHANGED handshakeVars
    /\ UNCHANGED fileVars
    /\ UNCHANGED <<signalVars, createTimes>>

\* the last saveMessage has resolved: setMessages, setIsSending(false)
ChatSaved ==
    /\ sendStage.stage = "updating"
    /\ sendStage' = NotSending
    /\ isSending' = FALSE
    /\ UNCHANGED <<chatStore, nextMessage>>
    /\ UNCHANGED <<callVars, supportVars>>
    /\ UNCHANGED clientVars
    /\ UNCHANGED relayVars
    /\ UNCHANGED dispatchVars
    /\ UNCHANGED handshakeVars
    /\ UNCHANGED fileVars
    /\ UNCHANGED <<signalVars, createTimes>>

\* the chat branch of the message handler: an envelope of type 'chat' from
\* the contact's peer is saved under its message id with sender 'them' and
\* status 'delivered'
ChatReceive(c, id) ==
    /\ \E ch \in Channels : chan[ch].peer = PeerIdOf(c) /\ Open(ch)
    /\ chatStore' = SaveMessage(chatStore, id, "them", "delivered")
    /\ UNCHANGED <<nextMessage, isSending, sendStage>>
    /\ UNCHANGED <<callVars, supportVars>>
    /\ UNCHANGED clientVars
    /\ UNCHANGED relayVars
    /\ UNCHANGED dispatchVars
    /\ UNCHANGED handshakeVars
    /\ UNCHANGED fileVars
    /\ UNCHANGED <<signalVars, createTimes>>

\* the steps of handleSendMessage after its first await, and of the
\* ensureConnection call it waits for
ChatContinues ==
    \/ \E throws \in BOOLEAN : ChatEnsure(throws)
    \/ \E c \in Contacts : EnsureSettled(c)
    \/ \E throws \in BOOLEAN : ChatSendNow(throws)
    \/ ChatSaved

ChatNext ==
    \/ \E throws \in BOOLEAN : RegisterPeer(throws)
    \/ PeerOpen
    \/ \E r \in RemotePeers : PeerConnection(r)
    \/ \E c \in Contacts, text \in Texts : HandleSendMessage(c, text)
    \/ \E throws \in BOOLEAN : ChatEnsure(throws)
    \/ \E c \in Contacts : EnsureSettled(c)
    \/ \E throws \in BOOLEAN : ChatSendNow(throws)
    \/ ChatSaved
    \/ \E c \in Contacts, id \in IncomingIds : ChatReceive(c, id)
    \/ \E ch \in Channels : ChanOpenCall(ch)
    \/ \E ch \in Channels : ChanErrorCall(ch)
    \/ \E ch \in Channels : ChanClose(ch)
    \/ DisconnectAll

\* the runtime resumes a handler whose awaited promise has settled; the
\* events of a channel come from the network and may never come
ChatSendSpec == Init /\ [][ChatNext]_vars /\ WF_vars(ChatContinues)

(***************************************************************************)
(* Claims about the relay.  Every relay action records the event it        *)
(* handled in lastEvent' and what it sent in sent', so a step is described *)
(* by the registry before it (unprimed) and the event and output after it. *)
(***************************************************************************)
FrameStep(kinds) ==
    /\ lastEvent'.kind = "message"
    /\ lastEvent'.frame.type \in kinds

CloseStep == lastEvent'.kind = "close"

\* the socket bound under no peer id
Unbound(reg, s) == \A id \in PeerIds : reg[id].ws # s

HasType(q, types) == \E i \in DOMAIN q : q[i].type \in types

\* C5: last registration wins.  A register frame binds its peer id to the
\* socket it arrived on; a binding is replaced only by a later register
\* frame for the same id; a signal/offer/answer/ice-candidate addressed to
\* an id reaches only the socket bound to that id at that moment; and a
\* socket that no id is bound to (the first of two sockets that registered
\* the same id) receives no forwarded frame and no presence broadcast.
C5_LastRegistrationWins ==
    [][/\ FrameStep({"register"}) =>
            peers'[lastEvent'.frame.peerId].ws = lastEvent'.sock
       /\ \A id \in PeerIds :
            (peers'[id].ws # peers[id].ws /\ peers'[id].ws # NoSocket) =>
                /\ FrameStep({"register"})
                /\ lastEvent'.frame.peerId = id
                /\ peers'[id].ws = lastEvent'.sock
       /\ \A s \in Sockets :
            HasType(sent'[s], ForwardKinds) =>
                /\ FrameStep(ForwardKinds)
                /\ peers[lastEvent'.frame.to].ws = s
       /\ \A s \in Sockets :
            Unbound(peers, s) =>
                ~HasType(sent'[s], ForwardKinds \cup {"peer-status"})
      ]_vars

\* C5 witness: both sockets registered the same id, the second one last, and
\* a frame addressed to that id has just been delivered to the second only.
C5_Witness ==
    \E s1 \in Sockets, s2 \in Sockets, id \in PeerIds :
        /\ s1 # s2
        /\ currentPeerId[s1] = id /\ currentPeerId[s2] = id
        /\ peers[id].ws = s2
        /\ sockState[s1] = "open" /\ sockState[s2] = "open"
        /\ lastEvent.kind = "message"
        /\ lastEvent.frame.type \in ForwardKinds
        /\ lastEvent.frame.to = id
        /\ Len(sent[s2]) = 1 /\ sent[s2][1].type = lastEvent.frame.type
        /\ sent[s1] = <<>>

\* C6, as documented: a registration disappears from the registry only when
\* the socket it is bound to closes; the close of another socket that once
\* registered the same id leaves it in place.
C6_CloseRemovesOwnBindingOnly ==
    [][\A id \in PeerIds :
          (peers[id].ws # NoSocket /\ peers'[id].ws = NoSocket) =>
              (CloseStep /\ lastEvent'.sock = peers[id].ws)
      ]_vars

\* C7, as documented: a signal, offer, answer or ice-candidate whose target is
\* not registered, or whose target's socket is not open, is answered with
\* one error message to its sender and with nothing else.
C7_UnavailableTargetGetsError ==
    [][(FrameStep(ForwardKinds) /\ ~Available(peers, lastEvent'.frame.to)) =>
          /\ Len(sent'[lastEvent'.sock]) = 1
          /\ sent'[lastEvent'.sock][1].type = "error"
          /\ \A t \in Sockets \ {lastEvent'.sock} : sent'[t] = <<>>
      ]_vars

\* C8: a signal, offer, answer or ice-candidate whose target is registered
\* with an open socket is sent exactly once, to the target's socket only,
\* with the frame's type, from and payload (and callType); the registry and
\* the sockets are left as they were.
C8_ForwardExactlyOnce ==
    [][(FrameStep(ForwardKinds) /\ Available(peers, lastEvent'.frame.to)) =>
          LET f == lastEvent'.frame
              target == peers[f.to].ws
          IN /\ Len(sent'[target]) = 1
             /\ sent'[target][1].type = f.type
             /\ sent'[target][1].from = f.from
             /\ sent'[target][1].payload = f.payload
             /\ sent'[target][1].callType = f.callType
             /\ \A t \in Sockets \ {target} : sent'[t] = <<>>
             /\ peers' = peers
             /\ currentPeerId' = currentPeerId
             /\ sockState' = sockState
      ]_vars

\* C8 witness: an offer has just been forwarded to a socket other than its
\* sender, under a from that is not the sender's registered id.
C8_Witness ==
    \E t \in Sockets :
        /\ lastEvent.kind = "message"
        /\ lastEvent.frame.type = "offer"
        /\ t # lastEvent.sock
        /\ peers[lastEvent.frame.to].ws = t
        /\ lastEvent.frame.from # currentPeerId[lastEvent.sock]
        /\ Len(sent[t]) = 1
        /\ sent[t][1].type = "offer"
        /\ sent[t][1].callType = "video"

\* C9, as documented: a status-update from a registered socket is sent, as a
\* peer-status message with the sender's peer id and the given status, to
\* every other socket that is registered and open, and never to the sender's
\* own socket.
C9_StatusBroadcastExceptSender ==
    [][(FrameStep({"status-update"})
            /\ currentPeerId[lastEvent'.sock] # NoPeer) =>
          LET s == lastEvent'.sock
              m == PeerStatusMsg(currentPeerId[s], lastEvent'.frame.status)
          IN /\ sent'[s] = <<>>
             /\ \A t \in Sockets \ {s} :
                   IF ~Unbound(peers, t) /\ IsOpen(t)
                   THEN /\ sent'[t] # <<>>
                        /\ \A i \in DOMAIN sent'[t] : sent'[t][i] = m
                   ELSE sent'[t] = <<>>
      ]_vars

\* C10, as documented: when a registered socket closes, its registration is
\* removed and an offline peer-status event is sent to every other socket
\* that is still open, registered or not.
C10_OfflineToEveryOpenSocket ==
    [][(CloseStep /\ currentPeerId[lastEvent'.sock] # NoPeer) =>
          LET s == lastEvent'.sock
              m == PeerStatusMsg(currentPeerId[s], "offline")
          IN /\ peers'[currentPeerId[s]] = NoEntry
             /\ \A t \in Sockets \ {s} :
                   sockState'[t] = "open" =>
                       \E i \in DOMAIN sent'[t] : sent'[t][i] = m
      ]_vars

\* C10, as implemented: when a registered socket closes, the registry entry of its
\* peer id is removed and the offline peer-status event for that id is sent
\* to exactly the sockets that still hold a registry entry and are open; a
\* socket that holds no registry entry receives nothing, and the close of a
\* socket that never registered sends nothing.
C10_OfflineToRegisteredOpenSockets ==
    [][CloseStep =>
          LET s == lastEvent'.sock
              m == PeerStatusMsg(currentPeerId[s], "offline")
          IN IF currentPeerId[s] = NoPeer
             THEN peers' = peers /\ \A t \in Sockets : sent'[t] = <<>>
             ELSE /\ peers'[currentPeerId[s]] = NoEntry
                  /\ \A id \in PeerIds \ {currentPeerId[s]} :
                        peers'[id] = peers[id]
                  /\ \A t \in Sockets :
                        IF ~Unbound(peers', t) /\ sockState'[t] = "open"
                        THEN /\ sent'[t] # <<>>
                             /\ \A i \in DOMAIN sent'[t] : sent'[t][i] = m
                        ELSE sent'[t] = <<>>
      ]_vars

\* C10 witness: a registered socket has just closed and another socket,
\* registered and open, was sent the offline event for its peer id.
C10_Witness ==
    \E t \in Sockets :
        /\ lastEvent.kind = "close"
        /\ currentPeerId[lastEvent.sock] # NoPeer
        /\ peers[currentPeerId[lastEvent.sock]] = NoEntry
        /\ t # lastEvent.sock
        /\ sockState[t] = "open"
        /\ sent[t] =
             <<PeerStatusMsg(currentPeerId[lastEvent.sock], "offline")>>

\* C11: a frame that fails to parse is answered with exactly one error
\* message to its sender and with nothing to any other socket; the registry
\* and every socket's registered id are left as they were, and every socket,
\* the sender's included, stays in the state it was in (the sender's stays
\* open, so the relay goes on handling its frames from the same registry).
C11_MalformedFrameOnlyErrorReply ==
    [][FrameStep({"malformed"}) =>
          LET s == lastEvent'.sock
          IN /\ Len(sent'[s]) = 1
             /\ sent'[s][1].type = "error"
             /\ \A t \in Sockets \ {s} : sent'[t] = <<>>
             /\ peers' = peers
             /\ currentPeerId' = currentPeerId
             /\ sockState' = sockState
             /\ sockState'[s] = "open"
      ]_vars

\* C11 witness: a registered socket has just sent an unparsable frame while
\* another registered socket is open; it got the error reply, still holds
\* its registration and is still open.
C11_Witness ==
    \E t \in Sockets :
        /\ lastEvent.kind = "message"
        /\ lastEvent.frame.type = "malformed"
        /\ t # lastEvent.sock
        /\ sockState[t] = "open" /\ ~Unbound(peers, t)
        /\ sockState[lastEvent.sock] = "open"
        /\ currentPeerId[lastEvent.sock] # NoPeer
        /\ peers[currentPeerId[lastEvent.sock]].ws = lastEvent.sock
        /\ sent[lastEvent.sock] = <<ErrorMsg("Invalid message format")>>
        /\ sent[t] = <<>>

(***************************************************************************)
(* Claims about the client's connection lifecycle.                         *)
(***************************************************************************)
OpenChannelsTo(r) == {ch \in Channels : chan[ch].peer = r /\ Open(ch)}

\* C1, as documented: at most one live channel exists per remote peer id,
\* whatever connectToPeer calls, incoming connections, closes,
\* sendMessage/ensureConnection calls and disconnects have happened.  A
\* channel is counted here only once it is open.
C1_AtMostOneLiveChannel ==
    \A r \in RemotePeers : Cardinality(OpenChannelsTo(r)) <= 1

\* C2, as documented: the status of a contact never moves directly from
\* 'connected' to 'connecting'.
C2_NoConnectedToConnecting ==
    [][\A c \in Contacts :
          status[c] = "connected" => status'[c] # "connecting"
      ]_vars

\* C3, as documented: when the status of a contact leaves 'failed' for
\* 'connecting', a fresh channel to its peer has been requested from the
\* transport library and recorded, so that its open can report 'connected'.
C3_RetryAfterFailedRequestsChannel ==
    [][\A c \in Contacts :
          (status[c] = "failed" /\ status'[c] = "connecting") =>
              /\ nextChan' = nextChan + 1
              /\ connections'[PeerIdOf(c)] = nextChan'
              /\ chan'[nextChan'].st = "pending"
              /\ chan'[nextChan'].out
      ]_vars

\* C4, as documented: when the open channel recorded for a contact's peer is
\* closed, by the remote peer or by disconnect(peerId), the status callback
\* registered for the contact is invoked with 'disconnected' (the callback
\* stores what it is given in the status map).
C4_CloseReportsDisconnected ==
    [][\A c \in Contacts :
          (/\ c \in statusHandlers
           /\ connections[PeerIdOf(c)] # 0
           /\ Open(connections[PeerIdOf(c)])
           /\ chan'[connections[PeerIdOf(c)]].st = "closed") =>
              status'[c] = "disconnected"
      ]_vars

(***************************************************************************)
(* Claims about the signaling socket and the instance initialization.      *)
(***************************************************************************)
\* the client has given up: the maximum of attempts was scheduled since the
\* last open, none is pending and no socket is alive
GaveUp ==
    /\ scheduledSinceOpen = MaxReconnectAttempts
    /\ reconnectTimers = {}
    /\ ws \in {"none", "closed"}

\* C12: the number of reconnect attempts scheduled since the last successful
\* open of the signaling socket never exceeds 5, and once 5 were made and
\* the last of them ended without an open (no socket alive, no attempt
\* pending), no step schedules another one or creates a socket: the client
\* stays in that state whatever happens next.
C12_ReconnectBounded ==
    [][/\ scheduledSinceOpen' <= MaxReconnectAttempts
       /\ GaveUp => GaveUp'
      ]_vars

\* C12 witness: the client has given up after the socket had been open once
\* (the attempts were counted anew) while the Peer instance is open.
C12_Witness ==
    /\ GaveUp
    /\ ws = "closed"
    /\ reconnectAttempts = MaxReconnectAttempts
    /\ peer = "open"

\* C13: a step creates a transport-library instance only if no
\* re-initialization is in flight and at least 3000 ms have passed since the
\* previous initialization started, and at least 3000 ms after the previous
\* instance was created.
C13_InitializationDebounced ==
    [][Len(createTimes') > Len(createTimes) =>
          /\ ~isReinitializing
          /\ now - lastReinitTime >= CooldownMs
          /\ createTimes # <<>> =>
                now - createTimes[Len(createTimes)] >= CooldownMs
      ]_vars

\* C13 witness: two instances were created, the second one a cooldown after
\* the first.
C13_Witness ==
    /\ Len(createTimes) = 2
    /\ createTimes[2] - createTimes[1] = CooldownMs
    /\ peer = "pending"

(***************************************************************************)
(* Claims about the dispatch of inbound channel data.                      *)
(***************************************************************************)
\* a step that handles a 'data' event; the event; the invocations logged
\* for the k-th event
DataStep == Len(inbox') = Len(inbox) + 1
NewEvent == inbox'[Len(inbox')]
CallsAt(log, k, kind) ==
    {i \in DOMAIN log : log[i].at = k /\ log[i].kind = kind}

\* C14, as documented: every inbound envelope that decodes is passed to
\* every handler the consumer registered with onGlobalMessage, whether or
\* not a per-peer handler is registered for the sending peer.
C14_GlobalHandlersSeeEveryEnvelope ==
    [][(DataStep /\ Decodable(NewEvent.data)) =>
          \A g \in globalRequested :
             \E i \in CallsAt(calls', Len(inbox'), "global") :
                /\ calls'[i].handler = g
                /\ calls'[i].peer = NewEvent.peer
                /\ calls'[i].message = Decode(NewEvent.data)
      ]_vars

\* C15: the handler registered for a peer id is the one last passed to
\* onMessage for that id; a step that registers nothing for an id leaves
\* that id's handler as it was; and a decodable inbound envelope from a
\* peer is passed to that one handler, once, and to no other per-peer
\* handler (to none when no handler was registered for the peer).
C15_LastHandlerWins ==
    [][/\ \A r \in RemotePeers : messageHandlers'[r] = lastRegistered'[r]
       /\ \A r \in RemotePeers :
             lastRegistered'[r] = lastRegistered[r] =>
                 messageHandlers'[r] = messageHandlers[r]
       /\ DataStep =>
             LET k == Len(inbox')
                 made == CallsAt(calls', k, "peer")
             IN IF Decodable(NewEvent.data) /\ lastRegistered[NewEvent.peer] # 0
                THEN /\ Cardinality(made) = 1
                     /\ \A i \in made :
                           /\ calls'[i].handler = lastRegistered[NewEvent.peer]
                           /\ calls'[i].peer = NewEvent.peer
                ELSE made = {}
      ]_vars

\* C15 witness: handler 1 and then handler 2 were registered for a peer;
\* its first envelope went to handler 1, its second to handler 2 only, and
\* another peer has a handler of its own.
C15_Witness ==
    \E p \in RemotePeers, q \in RemotePeers :
        /\ p # q
        /\ messageHandlers[q] # 0
        /\ messageHandlers[p] = 2
        /\ Len(calls) = 2
        /\ calls[1].peer = p /\ calls[1].handler = 1 /\ calls[1].at = 1
        /\ calls[2].peer = p /\ calls[2].handler = 2 /\ calls[2].at = 2

\* C16: a payload that cannot be decoded invokes no handler, lets no
\* exception leave the 'data' callback and leaves the connection records,
\* the channels and the handlers as they were; a decodable payload that
\* follows an undecodable one on the same channel is still passed to the
\* peer's handler.
C16_UndecodablePayloadDropped ==
    [][DataStep =>
          LET k == Len(inbox')
          IN /\ ~Decodable(NewEvent.data) =>
                   /\ calls' = calls
                   /\ ~uncaught'
                   /\ connections' = connections
                   /\ chan' = chan
                   /\ messageHandlers' = messageHandlers
             /\ (/\ Decodable(NewEvent.data)
                 /\ messageHandlers[NewEvent.peer] # 0
                 /\ \E j \in DOMAIN inbox :
                       /\ inbox[j].chan = NewEvent.chan
                       /\ ~Decodable(inbox[j].data)) =>
                   \E i \in CallsAt(calls', k, "peer") :
                       calls'[i].message = Decode(NewEvent.data)
      ]_vars

\* C16 witness: an undecodable payload and then a decodable one arrived on
\* the recorded channel of a peer; only the second reached the handler.
C16_Witness ==
    /\ Len(inbox) = 2
    /\ ~Decodable(inbox[1].data) /\ Decodable(inbox[2].data)
    /\ inbox[1].chan = inbox[2].chan
    /\ connections[inbox[1].peer] = inbox[1].chan
    /\ Len(calls) = 1 /\ calls[1].at = 2
    /\ ~uncaught

\* the per-peer invocations are logged in the order of the events that
\* caused them, at most one per event, each with its event's envelope
InOrder(log, events) ==
    /\ \A i \in DOMAIN log, j \in DOMAIN log :
          (i < j /\ log[i].kind = "peer" /\ log[j].kind = "peer") =>
              log[i].at < log[j].at
    /\ \A i \in DOMAIN log :
          /\ log[i].at \in DOMAIN events
          /\ log[i].peer = events[log[i].at].peer
          /\ log[i].message = Decode(events[log[i].at].data)

\* C17: while a handler is registered for a peer, each decodable envelope
\* delivered on a channel of that peer invokes the handler once, within
\* the step that delivers it and after every earlier invocation; the log of
\* invocations follows the order of delivery, with no envelope handled
\* twice or out of turn.
C17_HandledInDeliveryOrder ==
    [][/\ InOrder(calls', inbox')
       /\ (/\ DataStep
           /\ Decodable(NewEvent.data)
           /\ messageHandlers[NewEvent.peer] # 0) =>
             calls' = Append(calls,
                        [kind |-> "peer",
                         handler |-> messageHandlers[NewEvent.peer],
                         peer |-> NewEvent.peer,
                         message |-> Decode(NewEvent.data),
                         at |-> Len(inbox')])
      ]_vars

\* C17 witness: two different envelopes of one peer were handled by the
\* same handler in the order they were delivered.
C17_Witness ==
    /\ Len(inbox) = 2 /\ Len(calls) = 2
    /\ inbox[1].peer = inbox[2].peer
    /\ inbox[1].chan = inbox[2].chan
    /\ calls[1].handler = calls[2].handler
    /\ calls[1].at = 1 /\ calls[2].at = 2
    /\ calls[1].message = 2 /\ calls[2].message = 1

(***************************************************************************)
(* Claims about the file transfer.                                         *)
(***************************************************************************)
\* where in the outbox the envelopes of a transfer are
Positions(id) ==
    {k \in DOMAIN outbox : outbox[k].call.messageId[1] = id}
Lowest(S) == CHOOSE k \in S : \A j \in S : k <= j
Highest(S) == CHOOSE k \in S : \A j \in S : j <= k
\* the least c with c * 16384 >= n
CeilOf(n) ==
    CHOOSE c \in 0..(MaxFileChunks + 1) :
        c * ChunkSize >= n /\ (c > 0 => (c - 1) * ChunkSize < n)

C19_StopsAtFirstFailure ==
    /\ \A a \in DOMAIN outbox, b \in DOMAIN outbox :
          a # b => outbox[a].call # outbox[b].call
    /\ \A id \in FileIds :
          LET pos == Positions(id)
          IN /\ \A k \in pos : ~outbox[k].ok => \A j \in pos : j <= k
             /\ (\E k \in pos : ~outbox[k].ok) =>
                    records[id].status = "failed"
             /\ records[id].status = "sent" =>
                    /\ Cardinality(pos) = 1 + CeilOf(records[id].size)
                    /\ \A k \in pos : outbox[k].ok
             /\ records[id].status \in {"none", "sending"} => pos = {}

\* C19 witness: a file of two chunks whose first chunk could not be sent:
\* the metadata and chunk 0 were passed to sendMessage, chunk 1 was not,
\* and the record is 'failed'.
C19_Witness ==
    \E id \in FileIds :
        /\ records[id].size = 2 * ChunkSize
        /\ records[id].status = "failed"
        /\ Cardinality(Positions(id)) = 2
        /\ outbox[Lowest(Positions(id))].ok
        /\ ~outbox[Highest(Positions(id))].ok
        /\ outbox[Highest(Positions(id))].call.chunkIndex = 0

\* the slots of a session that hold data
Filled(t) == {i \in DOMAIN t.chunks : t.chunks[i] # Null}
SessionsConsistent ==
    \A f \in FileKeys :
        fileChunks[f].has =>
            /\ Len(fileChunks[f].chunks) = fileChunks[f].meta
            /\ fileChunks[f].receivedCount = Cardinality(Filled(fileChunks[f]))
            /\ fileChunks[f].receivedCount <= fileChunks[f].meta
\* the envelope handled by this step is a chunk for a session in which its
\* slot is filled, or which has no slot of its index
Redundant(env) ==
    /\ env.fileId # NoFileId
    /\ fileChunks[env.fileId].has
    /\ \/ env.chunkIndex + 1 \notin DOMAIN fileChunks[env.fileId].chunks
       \/ fileChunks[env.fileId].chunks[env.chunkIndex + 1] # Null

\* C20: after every step (no session exists before the first), each
\* session's received count is the number of its
\* slots that hold data and is at most the chunk count its metadata
\* declared; and a step that handles a chunk whose slot is already filled,
\* or whose index is outside 0..count-1, leaves every session's slots and
\* received count as they were.
C20_SessionCountsFilledSlots ==
    [][/\ SessionsConsistent'
       /\ (lastRx'.turn # lastRx.turn /\ Redundant(lastRx'.env)) =>
             fileChunks' = fileChunks
      ]_vars

\* C20 witness: chunk 0 was delivered a second time, with other data, to a
\* session of two chunks: slot 0 keeps the first data and the count is 1.
C20_Witness ==
    LET env == lastRx.env
    IN /\ env.fileId # NoFileId
       /\ env.chunkIndex = 0
       /\ fileChunks[env.fileId].has
       /\ fileChunks[env.fileId].meta = 2
       /\ fileChunks[env.fileId].chunks[1] # Null
       /\ fileChunks[env.fileId].chunks[1] # env.chunkData
       /\ fileChunks[env.fileId].receivedCount = 1

\* a step that handles a 'file' envelope; one that handles the metadata of
\* file f; a chunk for a session whose slot of that index holds data
RxStep == lastRx'.turn # lastRx.turn
MetadataStep(f) ==
    RxStep /\ lastRx'.env.fileId = NoFileId /\ lastRx'.env.messageId = f
Duplicate(env) ==
    /\ env.fileId # NoFileId
    /\ fileChunks[env.fileId].has
    /\ env.chunkIndex + 1 \in DOMAIN fileChunks[env.fileId].chunks
    /\ fileChunks[env.fileId].chunks[env.chunkIndex + 1] # Null
\* the first k slots, one after the other
RECURSIVE InIndexOrder(_, _)
InIndexOrder(chunks, k) ==
    IF k = 0 THEN <<>> ELSE AppendRun(InIndexOrder(chunks, k - 1), chunks[k])

\* C21: while a session lives, a slot that holds data keeps it, and a slot
\* that gets data gets the data of the chunk of its index handled in that
\* step, so each slot holds the bytes first received for its index; and
\* the bytes of a file that completes are the bytes of slots 0..k-1, all of
\* them filled, one after the other in index order, whatever the order of
\* arrival and however many chunks were repeated.
C21_ReassemblyInIndexOrder ==
    [][/\ \A f \in FileKeys :
             (fileChunks[f].has /\ fileChunks'[f].has /\ ~MetadataStep(f)) =>
                 /\ Len(fileChunks'[f].chunks) = Len(fileChunks[f].chunks)
                 /\ \A i \in DOMAIN fileChunks[f].chunks :
                       IF fileChunks[f].chunks[i] # Null
                       THEN fileChunks'[f].chunks[i] = fileChunks[f].chunks[i]
                       ELSE fileChunks'[f].chunks[i] # Null =>
                               /\ RxStep
                               /\ lastRx'.env.fileId = f
                               /\ lastRx'.env.chunkIndex = i - 1
                               /\ fileChunks'[f].chunks[i] = lastRx'.env.chunkData
       /\ Len(finishing') > Len(finishing) =>
             LET done == finishing'[Len(finishing')]
                 slots == fileChunks'[done.id].chunks
             IN /\ RxStep
                /\ done.id = lastRx'.env.fileId
                /\ \A i \in DOMAIN slots : slots[i] # Null
                /\ done.bytes = InIndexOrder(slots, Len(slots))
      ]_vars

\* C21 witness: a file of two chunks completed when chunk 0 arrived, after
\* chunk 1; its bytes are those of slot 0 followed by those of slot 1.
C21_Witness ==
    /\ finishing # <<>>
    /\ lastRx.env.fileId = finishing[1].id
    /\ lastRx.env.chunkIndex = 0
    /\ lastRx.env.chunkData = Bytes(0, 2)
    /\ finishing[1].bytes = <<Bytes(0, 2), Bytes(0, 1)>>

\* C22, as documented: a chunk whose slot already holds data does nothing:
\* no session changes, no file is completed a second time and no further
\* file message is added, also while the completed file is still waiting
\* on saveMessage and the session still exists.
C22_DuplicateChunkDoesNothing ==
    [][(RxStep /\ Duplicate(lastRx'.env)) =>
          /\ fileChunks' = fileChunks
          /\ finishing' = finishing
          /\ received' = received
      ]_vars

\* a file message for transfer id, with the bytes of the sent file, was
\* added to the chat and the session of the transfer is gone
Arrived(id) ==
    /\ \E k \in DOMAIN received :
          /\ received[k].id = MessageId(id)
          /\ received[k].bytes = FileContent(records[id].size)
    /\ ~fileChunks[MessageId(id)].has

\* C23, as documented: every transfer whose envelopes were all sent, and
\* are delivered in order, ends with a file message carrying the bytes of
\* the sent file and with the session deleted, for every file size,
\* 0 bytes (a declared chunk count of 0) included.
C23_TransferCompletes ==
    \A id \in FileIds : (records[id].status = "sent") ~> Arrived(id)

(***************************************************************************)
(* Claims about the contact-info handshake.                                *)
(***************************************************************************)
\* an invocation whose envelope passes the documented validation
ValidHandshake(h) ==
    /\ h.message.type = "contact-info"
    /\ h.peerId # LocalId
    /\ h.message.peerId \in {NoPayloadId, h.peerId}
    /\ h.message.displayName.kind = "string"
    /\ \E i \in DOMAIN h.message.displayName.text :
          h.message.displayName.text[i] # " "
Finished(h) == h.stage \in {"ignored", "rejected", "skipped", "added"}

C25_OneContactPerPeer ==
    \A p \in RemotePeers :
        (/\ \E k \in DOMAIN handshakes :
               handshakes[k].peerId = p /\ ValidHandshake(handshakes[k])
         /\ \A k \in DOMAIN handshakes :
               handshakes[k].peerId = p => Finished(handshakes[k]))
        => Cardinality({c \in contactStore : c.peerId = p}) = 1

(***************************************************************************)
(* Claims about the manager's calls.                                       *)
(***************************************************************************)
\* a call of the manager returned (or, for connectToPeer, returned its
\* promise) in this step
CallStep(op) == lastCall'.turn # lastCall.turn /\ lastCall'.op = op

\* the channel completes its first open in this step
FirstOpen(ch) == chan[ch].st = "pending" /\ chan'[ch].st = "open"

\* C26: whenever a data channel completes its first open, the endpoint that
\* opened it sends a contact-info envelope through that channel: the step
\* in which an outgoing channel opens hands a message to that channel.
C26_OpenSendsContactInfo ==
    [][\A ch \in Channels :
         FirstOpen(ch) /\ chan[ch].out
           => CallStep("send") /\ lastCall'.chan = ch]_vars

\* C27: sendMessage never throws; it returns true only if a record for the
\* peer exists and is open and the transport send did not raise, and then
\* the message was handed to that channel; in every other case it returns
\* false, hands nothing to any channel and leaves no record for the peer.
C27_SendMessageResult ==
    [][CallStep("send") =>
         LET r == lastCall'.peer
         IN /\ lastCall'.result \in {"true", "false"}
            /\ lastCall'.result = "true" =>
                  /\ connections[r] # 0 /\ Open(connections[r])
                  /\ lastCall'.chan = connections[r]
                  /\ connections' = connections
            /\ lastCall'.result = "false" =>
                  /\ lastCall'.chan = 0
                  /\ connections'[r] = 0]_vars

\* sendMessage found a record that was not usable, returned false and the
\* record is gone
C27_Witness ==
    /\ lastCall.op = "send" /\ lastCall.result = "false" /\ lastCall.had
    /\ connections[lastCall.peer] = 0

\* connectToPeer requested the channel in this step and returned the promise
\* that waits for it
Requested(ch) ==
    /\ CallStep("connect") /\ lastCall'.result = "pending"
    /\ lastCall'.chan = ch
    /\ chan[ch].st = "none" /\ chan'[ch].st = "pending"
    /\ chan'[ch].peer = lastCall'.peer
    /\ connections'[lastCall'.peer] = ch

\* the channel reports an error in this step
ErrorEvent(ch) == CallStep("error") /\ lastCall'.chan = ch

\* a promise of connectToPeer changes only when it is created for the
\* channel just requested, when that channel reports open (resolve) and when
\* that channel reports an error (reject); either event settles a promise
\* that is pending
SettledByChannelEvents ==
    \A ch \in Channels :
        /\ promise'[ch] # promise[ch] =>
              \/ promise[ch] = "none" /\ promise'[ch] = "pending"
                   /\ Requested(ch)
              \/ promise[ch] = "pending" /\ promise'[ch] = "resolved"
                   /\ FirstOpen(ch)
              \/ promise[ch] = "pending" /\ promise'[ch] = "rejected"
                   /\ ErrorEvent(ch)
        /\ promise[ch] = "pending" /\ FirstOpen(ch)
              => promise'[ch] = "resolved"
        /\ promise[ch] = "pending" /\ ErrorEvent(ch)
              => promise'[ch] = "rejected"

\* C29 as stated: connectToPeer for a peer id without a record settles only
\* on an event of the newly requested channel, or rejects at once when no
\* transport instance exists; for a peer id with a record it resolves at
\* once.
C29_SettlesOnChannelEvent ==
    [][/\ SettledByChannelEvents
       /\ CallStep("connect") =>
            /\ lastCall'.result = "resolved" <=> lastCall'.had
            /\ lastCall'.result = "rejected" <=>
                  ~lastCall'.had /\ peer = "null"
            /\ lastCall'.result = "pending" => Requested(lastCall'.chan)]_vars

\* C29, amended: connectToPeer for a peer id without a record settles only
\* on an event of the newly requested channel, or rejects at once when no
\* transport instance exists or when requesting the channel fails (the
\* instance is destroyed); for a peer id with a record it resolves at once.
C29_SettlesOnChannelEventOrFailedRequest ==
    [][/\ SettledByChannelEvents
       /\ CallStep("connect") =>
            /\ lastCall'.result = "resolved" <=> lastCall'.had
            /\ lastCall'.result = "rejected" <=>
                  ~lastCall'.had /\ peer \in {"null", "destroyed"}
            /\ lastCall'.result = "pending" => Requested(lastCall'.chan)]_vars

\* a promise was resolved by the open event of its channel, and a later
\* connectToPeer on the destroyed instance was rejected at once
C29_Witness ==
    /\ \E ch \in Channels : promise[ch] = "resolved"
    /\ \E ch \in Channels : promise[ch] = "pending" /\ chan[ch].st = "closed"
    /\ lastCall.op = "connect" /\ lastCall.result = "rejected"
    /\ peer = "destroyed"

\* ensureConnection calls connectToPeer in this step
EnsureConnects(c) ==
    ensuring[c].stage = "idle" /\ ensuring'[c].stage # "idle"

\* C30: ensureConnection never throws and returns true only if, when it
\* returns, the connection map holds an open channel for the peer; a record
\* found not open is removed before the connect is attempted; if the
\* connect attempt rejects, it returns false.
C30_EnsureConnectionResult ==
    [][/\ CallStep("ensure") =>
            /\ lastCall'.result \in {"true", "false"}
            /\ lastCall'.result = "true" =>
                  /\ connections'[lastCall'.peer] # 0
                  /\ chan'[connections'[lastCall'.peer]].st = "open"
       /\ \A c \in Contacts :
            /\ EnsureConnects(c) =>
                  /\ CallStep("connect") /\ lastCall'.peer = PeerIdOf(c)
                  /\ ~lastCall'.had
                  /\ connections[PeerIdOf(c)] # 0 =>
                        connections'[PeerIdOf(c)] # connections[PeerIdOf(c)]
            /\ (\/ EnsureConnects(c) /\ lastCall'.result = "rejected"
                \/ /\ ensuring[c].stage = "connecting"
                   /\ ensuring'[c] # ensuring[c]
                   /\ promise[ensuring[c].chan] = "rejected")
                  => ensuring'[c].stage = "failing"
            /\ ensuring[c].stage = "failing" /\ ensuring'[c] # ensuring[c]
                  => /\ CallStep("ensure") /\ lastCall'.peer = PeerIdOf(c)
                     /\ lastCall'.result = "false"]_vars

\* ensureConnection found no open record, connected, waited and returned
\* true with an open channel in the map
C30_Witness ==
    /\ lastCall.op = "ensure" /\ ~lastCall.had /\ lastCall.result = "true"
    /\ connections[lastCall.peer] = lastCall.chan
    /\ Open(lastCall.chan)

(***************************************************************************)
(* Claims about chat messages.                                             *)
(***************************************************************************)
\* a record of the store changes only by being created ('sending' by the
\* sender, 'delivered' with sender 'them' by the receiving side) or by an
\* outgoing record going from 'sending' to 'sent' or 'failed', 'sent' only
\* when sendMessage returned true
LifecycleStep ==
    \A id \in MessageIds :
        chatStore'[id] # chatStore[id] =>
            \/ /\ chatStore[id] = NoMessage
               /\ chatStore'[id] \in
                     {[sender |-> "me", status |-> "sending"],
                      [sender |-> "them", status |-> "delivered"]}
            \/ /\ chatStore[id] = [sender |-> "me", status |-> "sending"]
               /\ chatStore'[id].sender = "me"
               /\ chatStore'[id].status \in {"sent", "failed"}
               /\ chatStore'[id].status = "sent" =>
                     CallStep("send") /\ lastCall'.result = "true"

\* C28: an outgoing message is first persisted with status 'sending', then
\* changes exactly once to 'sent' or 'failed' and never again, 'sent' only
\* if the send path reported success; 'delivered' is only assigned to
\* records created on the receiving side.
C28_DeliveryStatusLifecycle ==
    /\ [][LifecycleStep]_vars
    /\ \A id \in OutgoingIds :
          (chatStore[id].status = "sending")
            ~> (chatStore[id].status \in {"sent", "failed"})

(***************************************************************************)
(* Claims about the reconnection of the signaling socket.                  *)
(***************************************************************************)
\* the 'close' event of a socket that this.ws.close() had closed
PurposefulClose == ws = "closing" /\ ws' = "closed"

\* C31: reconnection is attempted only after an unexpected close: the close
\* event of a socket that disconnectAll closed on purpose schedules no
\* reconnect (and so no new signaling socket is created for it).
C31_NoReconnectAfterDisconnectAll ==
    [][PurposefulClose =>
          /\ reconnectTimers' = reconnectTimers
          /\ reconnectAttempts' = reconnectAttempts]_vars

\* the delays of the timers this step sets; a signaling socket opens
Scheduled == reconnectTimers' \ reconnectTimers
SocketOpens == ws # "open" /\ ws' = "open"

\* C32: the k-th consecutive reconnect attempt (k = 1..5) is delayed by
\* k x 1000 ms, and the attempt counter is reset to 0 exactly when a
\* signaling socket opens: a step that schedules an attempt raises the
\* counter by one, to k, and sets one timer of k x 1000 ms; the counter
\* changes in no other way than that and the reset of an open.
C32_LinearDelayAndReset ==
    [][/\ Scheduled # {} =>
            /\ reconnectAttempts' = reconnectAttempts + 1
            /\ reconnectAttempts' \in 1..MaxReconnectAttempts
            /\ Scheduled = {ReconnectDelay * reconnectAttempts'}
       /\ reconnectAttempts' # reconnectAttempts =>
            \/ Scheduled # {}
            \/ SocketOpens /\ reconnectAttempts' = 0
       /\ SocketOpens => reconnectAttempts' = 0]_vars

\* the fifth attempt of a run is pending with its delay of 5000 ms
C32_Witness ==
    /\ reconnectAttempts = MaxReconnectAttempts
    /\ reconnectTimers = {ReconnectDelay * MaxReconnectAttempts}
    /\ scheduledSinceOpen = MaxReconnectAttempts

(***************************************************************************)
(* Claims about errors of the transport.                                   *)
(***************************************************************************)
\* the 'error' handler of the Peer instance ran in this step
PeerErrorStep == lastError'.turn # lastError.turn

\* C33: an error of the Peer instance other than a server-error on an
\* already destroyed instance, and an error event of a single channel,
\* schedule no re-initialization, destroy no instance and leave every
\* connection record in place; a server-error on a destroyed instance
\* schedules exactly one re-initialization, ReinitDelay ms later, and changes
\* nothing else of the instance, the channels and the connection map.
C33_ErrorIsolation ==
    [][/\ (PeerErrorStep \/ \E ch \in Channels : ErrorEvent(ch)) =>
             /\ peer' = peer
             /\ chan' = chan
             /\ connections' = connections
             /\ createTimes' = createTimes
       /\ (\E ch \in Channels : ErrorEvent(ch)) =>
             reinitTimers' = reinitTimers
       /\ PeerErrorStep =>
             IF lastError'.type = "server-error" /\ peer = "destroyed"
             THEN reinitTimers' = Append(reinitTimers, ReinitDelay)
             ELSE reinitTimers' = reinitTimers]_vars

\* C33 witness: a server-error on a destroyed instance left one
\* re-initialization pending, and later a peer-unavailable error was handled
\* on the open instance that holds a connection record.
C33_Witness ==
    /\ reinitTimers = <<ReinitDelay>>
    /\ lastError.type = "peer-unavailable"
    /\ peer = "open"
    /\ \E r \in RemotePeers : connections[r] # 0

(***************************************************************************)
(* Claims about file sessions on the receiving side.                       *)
(***************************************************************************)
\* the envelope handled by this step is a chunk whose fileId has no session
Orphan(env) == env.fileId # NoFileId /\ ~fileChunks[env.fileId].has

\* C34: a chunk whose fileId has no session, because its metadata has not
\* arrived or because the session was destroyed, changes no session,
\* completes no file and adds no file message; and the session a metadata
\* envelope starts has no filled slot and a received count of 0, whatever
\* chunks came before it.
C34_OrphanChunkDiscarded ==
    [][/\ (RxStep /\ Orphan(lastRx'.env)) =>
             /\ fileChunks' = fileChunks
             /\ finishing' = finishing
             /\ received' = received
       /\ \A f \in FileKeys :
             MetadataStep(f) =>
                 /\ fileChunks'[f].has
                 /\ Filled(fileChunks'[f]) = {}
                 /\ fileChunks'[f].receivedCount = 0]_vars

\* C34 witness: a chunk was handled for a transfer whose file message was
\* already added and whose session is gone.
C34_Witness ==
    /\ lastRx.env.fileId # NoFileId
    /\ ~fileChunks[lastRx.env.fileId].has
    /\ \E k \in DOMAIN received : received[k].id = lastRx.env.fileId

\* C35, as documented: from its creation until it is destroyed a session's
\* slot array has the declared chunk count, and a filled slot stays filled
\* with the same bytes, whatever envelope is handled, a second metadata
\* envelope with the same transfer id included.
C35_SlotsStable ==
    [][\A f \in FileKeys :
         /\ fileChunks'[f].has =>
               Len(fileChunks'[f].chunks) = fileChunks'[f].meta
         /\ (fileChunks[f].has /\ fileChunks'[f].has) =>
               /\ Len(fileChunks'[f].chunks) = Len(fileChunks[f].chunks)
               /\ \A i \in Filled(fileChunks[f]) :
                     fileChunks'[f].chunks[i] = fileChunks[f].chunks[i]]_vars

(***************************************************************************)
(* Claims about the effect of a contact-info envelope.                     *)
(***************************************************************************)
\* invocation k stores its contact in this step; invocation k moves on
Adds(k) == handshakes[k].stage # "added" /\ handshakes'[k].stage = "added"
Moves(k) == handshakes'[k].stage # handshakes[k].stage

\* how many registrations of callback o the calls of onContactsChanged and
\* of the functions it returned have left
Registrations(log, o) ==
    Cardinality({i \in DOMAIN log :
                    log[i].kind = "subscribe" /\ log[i].who = o})
    - Cardinality({i \in DOMAIN log :
                      log[i].kind = "unsubscribe" /\ log[i].who = o})

\* the invocation that stores a contact stores one contact, for the peer of
\* its channel and with presence 'online', then notifies once, then runs
\* each callback once for each registration it has left and no other
AddsNotifiesObserves ==
    \A k \in DOMAIN handshakes :
        Adds(k) =>
            LET n == Len(contactEvents)
                new == contactStore' \ contactStore
                runs == {i \in (n + 3)..Len(contactEvents') : TRUE}
            IN /\ contactStore \subseteq contactStore'
               /\ Cardinality(new) = 1
               /\ \A c \in new : /\ c.peerId = handshakes[k].peerId
                                 /\ c.status = "online"
               /\ Len(notified') = Len(notified) + 1
               /\ Len(contactEvents') >= n + 2
               /\ SubSeq(contactEvents', 1, n) = contactEvents
               /\ contactEvents'[n + 1] = ContactEvent("saved", k, 0)
               /\ contactEvents'[n + 2] = ContactEvent("notified", k, 0)
               /\ \A i \in runs : /\ contactEvents'[i].kind = "observer"
                                  /\ contactEvents'[i].by = k
               /\ \A o \in Observers :
                     Cardinality({i \in runs : contactEvents'[i].who = o})
                       = Registrations(contactEvents, o)

\* an invocation moving on while a contact with its peer id is stored
\* leaves the store alone, notifies nobody and runs no callback
ExistingContactNoOp ==
    \A k \in DOMAIN handshakes :
        (Moves(k) /\ Finds(contactStore, handshakes[k].peerId)) =>
            /\ contactStore' = contactStore
            /\ notified' = notified
            /\ contactEvents' = contactEvents

\* C36, as documented: a valid contact-info envelope from a peer without a
\* contact stores one new contact with presence 'online', then shows one
\* notification, then runs every registered contacts-changed callback once
\* and no unsubscribed one; while a contact with that peer id exists, an
\* envelope changes no contact, shows no notification and runs no callback.
C36_ContactInfoEffect ==
    [][AddsNotifiesObserves /\ ExistingContactNoOp]_vars

(***************************************************************************)
(* Claims about presence.                                                  *)
(***************************************************************************)
\* the handler of onPeerStatusChange ran in this step
PresenceStep == lastPresence'.turn # lastPresence.turn

C38_RecordRemovedWithItsChannel ==
    [][\A r \in RemotePeers :
         (connections[r] # 0 /\ connections'[r] = 0) =>
             \/ Live(connections[r]) /\ chan'[connections[r]].st = "closed"
             \/ (CallStep("send") \/ CallStep("ensure"))
                  /\ lastCall'.peer = r]_vars

\* C39, as documented: in every reachable state a contact whose connection
\* status is 'connected' has an open channel stored for its peer in the
\* manager's connection map.
C39_ConnectedHasOpenChannel ==
    \A c \in Contacts :
        status[c] = "connected" =>
            connections[c] # 0 /\ Open(connections[c])

(***************************************************************************)
(* Claims about the registration with the relay.                           *)
(***************************************************************************)
BothOpen == ws = "open" /\ peer = "open"

\* C40, as documented: whenever the signaling socket and the Peer instance
\* are both open, the relay eventually holds a registration of the local
\* peer id made on that socket, unless one of the two stops being open
\* first; whichever of the two opened first, and also on a socket opened by
\* a reconnect.
C40_EventuallyRegistered == BothOpen ~> (relayHolds \/ ~BothOpen)

====
